---- MODULE Spec2Model ----
(***************************************************************************)
(* Model of the background worker of the ProductAnalysis extension         *)
(* (src/extension/src/background.ts): the selection of offers              *)
(* (truncateProducts) and the recovery of the model's answer               *)
(* (normalizeContent, repairJson, JSON.parse, fallback extraction).        *)
(*                                                                         *)
(* A JavaScript string is a sequence of UTF-16 code units (integers).       *)
(***************************************************************************)
EXTENDS Integers, Sequences, FiniteSets, TLC

\* products: the offers of the ANALYZE_PRODUCTS message
\* groups:   the Map of truncateProducts, in insertion order
\* limited:  what truncateProducts returned
\* requests: the calls of fetch made so far
\* resp:     how the transport settles the call: rejection, status, body
\* answer:   what the remote model wrote into its reply, and in what wrapping
\* content:  choices[0].message.content of the transport's reply
\* raw:      the normalized content
\* outcome:  what analyzeProducts returned or threw
\* replies:  the calls of sendResponse made so far
\* pc:       where analyzeProducts stands
VARIABLES products, groups, limited, requests, resp, answer, content, raw,
          outcome, replies, pc

\* calls:    the invocations of analyzeProducts in flight in the worker, each
\*           with its own locals, when more than one message is handled
VARIABLES calls

\* now:      the clock that Date.now() reads
VARIABLES now

\* The popup (src/extension/src/popup.ts).
\* analysisHistory, lastAnalysis: the keys of chrome.storage.local
\* nonce:           what tells the next random id from the earlier ones
\* currentProducts, currentAnalysis, currentTabId: the variables of the module,
\*                  currentTabId 0 when it is null
\* apiKey:          the key apiKey of chrome.storage.local
\* tab:             the URL of the active tab, empty when no popup is open
\* dom:             the screen shown, the buttons, the history list drawn
\* pending:         the handlers that wait at an await
\* sent:            the ANALYZE_PRODUCTS messages sent to the worker
VARIABLES analysisHistory, lastAnalysis, nonce, currentProducts, currentAnalysis,
          dom, pending, sent, currentTabId, apiKey, tab

\* The content script (src/extension/src/content.ts).
\* pageOffers: what parseProducts() finds in the page now
\* waiter:     the promise of waitForProducts, its observer and its timer
\* answers:    the calls of sendResponse for GET_PRODUCTS
VARIABLES pageOffers, waiter, answers

\* the state of one invocation followed alone
callVars == <<products, groups, limited, requests, resp, answer, content, raw,
              outcome, replies, pc>>
popupVars == <<analysisHistory, lastAnalysis, nonce, currentProducts, currentAnalysis,
               dom, pending, sent, currentTabId, apiKey, tab>>
pageVars == <<pageOffers, waiter, answers>>
\* the state outside of the one invocation
outerVars == <<calls, now, popupVars, pageVars>>
vars == <<callVars, outerVars>>

\* null, as a value of lastAnalysis and of currentAnalysis
Null == [kind |-> "null"]
\* no handler of the popup waits at an await
NothingPending ==
  [select |-> "idle", analyze |-> [pc |-> "idle"], history |-> "idle",
   check |-> "idle", settings |-> "idle"]
\* no popup is open and nothing is stored
PopupIdle ==
  /\ analysisHistory = <<>>
  /\ lastAnalysis = Null
  /\ nonce = 0
  /\ currentProducts = <<>>
  /\ currentAnalysis = Null
  /\ dom = [screen |-> "closed"]
  /\ pending = NothingPending
  /\ sent = <<>>
  /\ currentTabId = 0
  /\ apiKey = ""
  /\ tab = ""
\* no GET_PRODUCTS message is there
PageIdle ==
  /\ pageOffers = <<>>
  /\ waiter = [state |-> "none"]
  /\ answers = <<>>
\* no invocation is followed alone
CallIdle ==
  /\ products = <<>>
  /\ groups = <<>>
  /\ limited = <<>>
  /\ requests = <<>>
  /\ resp = [kind |-> "none", status |-> 0, body |-> <<>>]
  /\ answer = [wrap |-> "none"]
  /\ content = [t |-> "undefined"]
  /\ raw = <<>>
  /\ outcome = [kind |-> "none"]
  /\ replies = <<>>
  /\ pc = "idle"
\* nothing but the one invocation is there
OuterIdle == calls = <<>> /\ now = 0 /\ PopupIdle /\ PageIdle

(***************************************************************************)
(* Bounds of the model.                                                    *)
(***************************************************************************)
\* longest offer list of the exhaustive family
MaxLen == 3
\* manufacturers beyond the cap in the wide family
MaxExtraMfrs == 2
\* manufacturers that occur twice in the wide family
MaxDup == 3
\* entries of the results of an answer
MaxResults == 1

(***************************************************************************)
(* Strings.                                                                *)
(***************************************************************************)
SetMin(S) == CHOOSE x \in S : \A y \in S : x <= y
SetMax(S) == CHOOSE x \in S : \A y \in S : x >= y

\* the code units String.prototype.trim and the regex class \s remove,
\* among the units the model's texts are made of
WhiteSpace == {9, 10, 11, 12, 13, 32, 160}

\* the first index from i on, and the last index up to j, that holds no
\* white space
RECURSIVE firstNonBlank(_, _)
firstNonBlank(s, i) ==
  IF i <= Len(s) /\ s[i] \in WhiteSpace THEN firstNonBlank(s, i + 1) ELSE i
RECURSIVE lastNonBlank(_, _)
lastNonBlank(s, j) ==
  IF j >= 1 /\ s[j] \in WhiteSpace THEN lastNonBlank(s, j - 1) ELSE j

\* String.prototype.trim
trim(s) == SubSeq(s, firstNonBlank(s, 1), lastNonBlank(s, Len(s)))

\* String.prototype.toLowerCase on Latin A-Z and Cyrillic U+0410..U+042F
toLowerCase(s) ==
  [i \in 1..Len(s) |->
     IF (s[i] >= 65 /\ s[i] <= 90) \/ (s[i] >= 1040 /\ s[i] <= 1071)
     THEN s[i] + 32 ELSE s[i]]

\* the literal of background.ts:117 and :170, U+041D U+0435 U+0438 U+0437
\* U+0432 U+0435 U+0441 U+0442 U+043D U+043E
UnknownLabel == <<1053, 1077, 1080, 1079, 1074, 1077, 1089, 1090, 1085, 1086>>

\* a manufacturer field that is absent (undefined): no string is equal to it
Undefined == <<-1>>

(***************************************************************************)
(* Selection: median and truncateProducts.                                 *)
(***************************************************************************)
MAX_MANUFACTURERS == 10

\* Array.prototype.sort((a, b) => a - b): insertion of each price in turn
RECURSIVE sortAsc(_)
sortAsc(prices) ==
  IF prices = <<>> THEN <<>>
  ELSE LET rest == sortAsc(Tail(prices))
           x    == Head(prices)
           k    == Cardinality({i \in 1..Len(rest) : rest[i] < x})
       IN  SubSeq(rest, 1, k) \o <<x>> \o SubSeq(rest, k + 1, Len(rest))

\* median without the mean of the two middle prices: the upper middle one
median2_upperMiddle(prices) ==
  LET sorted == sortAsc(prices)
  IN  2 * sorted[Len(sorted) \div 2 + 1]

\* median(prices), times two: the mean of the two middle prices of an even
\* count may be a half, and the code only compares distances to it
median2(prices) ==
  LET sorted == sortAsc(prices)
      mid    == Len(sorted) \div 2
  IN  IF Len(sorted) % 2 # 0 THEN 2 * sorted[mid + 1]
      ELSE sorted[mid] + sorted[mid + 1]

Abs(x) == IF x < 0 THEN -x ELSE x

\* the filter with p.price >= 0
withPrice_zeroKept(list) == SelectSeq(list, LAMBDA p : p.price >= 0)

withPrice_all(list) == list

\* products.filter((p) => p.price > 0)
withPrice(list) == SelectSeq(list, LAMBDA p : p.price > 0)

\* the key of an offer in the Map of groups
groupKey(p) ==
  toLowerCase(trim(IF p.manufacturer = Undefined \/ p.manufacturer = <<>>
                   THEN UnknownLabel ELSE p.manufacturer))

\* a Map that puts a new key in front of the others
RECURSIVE groupsOf_newestFirst(_, _)
groupsOf_newestFirst(list, map) ==
  IF list = <<>> THEN map
  ELSE LET p   == Head(list)
           key == groupKey(p)
           at  == {i \in 1..Len(map) : map[i].key = key}
       IN  IF at = {}
           THEN groupsOf_newestFirst(Tail(list),
                                     <<[key |-> key, offers |-> <<p>>]>> \o map)
           ELSE LET i == CHOOSE j \in at : TRUE
                IN  groupsOf_newestFirst(Tail(list),
                                         [map EXCEPT ![i].offers = Append(@, p)])

\* the Map of groups after the loop over the priced offers: a Map iterates in
\* the order its keys were inserted, so it is a sequence of [key, offers]
RECURSIVE groupsOf(_, _)
groupsOf(list, map) ==
  IF list = <<>> THEN map
  ELSE LET p   == Head(list)
           key == groupKey(p)
           at  == {i \in 1..Len(map) : map[i].key = key}
       IN  IF at = {}
           THEN groupsOf(Tail(list), Append(map, [key |-> key, offers |-> <<p>>]))
           ELSE LET i == CHOOSE j \in at : TRUE
                IN  groupsOf(Tail(list), [map EXCEPT ![i].offers = Append(@, p)])

\* the reduce with <= in place of <: the last of the closest members wins
RECURSIVE reduceClosest_lastWins(_, _, _)
reduceClosest_lastWins(offers, best, med2) ==
  IF offers = <<>> THEN best
  ELSE LET p == Head(offers)
       IN  reduceClosest_lastWins(Tail(offers),
                                  IF Abs(2 * p.price - med2) <= Abs(2 * best.price - med2)
                                  THEN p ELSE best,
                                  med2)

\* offers.reduce((best, p) => |p.price - med| < |best.price - med| ? p : best)
RECURSIVE reduceClosest(_, _, _)
reduceClosest(offers, best, med2) ==
  IF offers = <<>> THEN best
  ELSE LET p == Head(offers)
       IN  reduceClosest(Tail(offers),
                         IF Abs(2 * p.price - med2) < Abs(2 * best.price - med2)
                         THEN p ELSE best,
                         med2)

\* the offer of one group that is pushed to result
closest(offers) ==
  reduceClosest(Tail(offers), Head(offers),
                median2([i \in 1..Len(offers) |-> offers[i].price]))

\* slice(1, n): the first offer is lost
slice0_fromOne(list, n) == SubSeq(list, 2, IF Len(list) < n THEN Len(list) ELSE n)

\* a slice that keeps one offer more
slice0_oneMore(list, n) == SubSeq(list, 1, IF Len(list) < n + 1 THEN Len(list) ELSE n + 1)

\* result.slice(0, MAX_MANUFACTURERS)
slice0(list, n) == SubSeq(list, 1, IF Len(list) < n THEN Len(list) ELSE n)

\* reduce without an initial value throws a TypeError on an empty array
reduceThrows(map) == \E i \in 1..Len(map) : map[i].offers = <<>>

\* the loop over the groups and the final slice
resultOf(map) ==
  slice0([i \in 1..Len(map) |-> closest(map[i].offers)], MAX_MANUFACTURERS)

truncateProducts(list) == resultOf(groupsOf(withPrice(list), <<>>))

(***************************************************************************)
(* JSON.  A value is a record tagged by t; an object is the sequence of    *)
(* its members in the order of their keys' first insertion.  The texts of  *)
(* the model hold no exponent, the one part of the number grammar that is  *)
(* left out.                                                               *)
(***************************************************************************)
JNull == [t |-> "null"]
JBool(b) == [t |-> "bool", b |-> b]
\* a number: sign, integer part and the digits of the fraction
JNum(neg, int, frac) == [t |-> "num", neg |-> neg, int |-> int, frac |-> frac]
JInt(n) == JNum(FALSE, n, <<>>)
JStr(s) == [t |-> "str", s |-> s]
JArr(items) == [t |-> "arr", items |-> items]
JObj(members) == [t |-> "obj", members |-> members]
Member(k, v) == [k |-> k, v |-> v]

\* the white space of the JSON grammar: tab, line feed, carriage return, space
JsonWs == {9, 10, 13, 32}
Digits == 48..57

RECURSIVE skipWs(_, _)
skipWs(s, i) == IF i <= Len(s) /\ s[i] \in JsonWs THEN skipWs(s, i + 1) ELSE i

\* the outcome of parsing a value: ok, the value, and the index after it
ParseFail == [ok |-> FALSE, v |-> JNull, next |-> 0]
ParseOk(v, next) == [ok |-> TRUE, v |-> v, next |-> next]

\* the character an escape \c stands for, 0 when there is none
Unescape(c) ==
  CASE c = 34 -> 34 [] c = 92 -> 92 [] c = 47 -> 47 [] c = 98 -> 8
    [] c = 102 -> 12 [] c = 110 -> 10 [] c = 114 -> 13 [] c = 116 -> 9
    [] OTHER -> 0

HexValue(c) ==
  CASE c \in 48..57 -> c - 48 [] c \in 65..70 -> c - 55 [] c \in 97..102 -> c - 87
    [] OTHER -> -1

\* a string literal from the index j after its opening quote on; acc holds
\* the characters read so far
RECURSIVE parseChars(_, _, _)
parseChars(s, j, acc) ==
  IF j > Len(s) THEN ParseFail
  ELSE IF s[j] = 34 THEN ParseOk(JStr(acc), j + 1)
  ELSE IF s[j] < 32 THEN ParseFail
  ELSE IF s[j] # 92 THEN parseChars(s, j + 1, Append(acc, s[j]))
  ELSE IF j + 1 > Len(s) THEN ParseFail
  ELSE IF Unescape(s[j + 1]) # 0
       THEN parseChars(s, j + 2, Append(acc, Unescape(s[j + 1])))
  ELSE IF s[j + 1] = 117 /\ j + 5 <= Len(s)
          /\ \A k \in (j + 2)..(j + 5) : HexValue(s[k]) >= 0
       THEN parseChars(s, j + 6,
                       Append(acc, 4096 * HexValue(s[j + 2]) + 256 * HexValue(s[j + 3])
                                   + 16 * HexValue(s[j + 4]) + HexValue(s[j + 5])))
  ELSE ParseFail

\* the index after the run of digits that starts at i
RECURSIVE digitsEnd(_, _)
digitsEnd(s, i) == IF i <= Len(s) /\ s[i] \in Digits THEN digitsEnd(s, i + 1) ELSE i

\* the number written by the digits s[i..j-1]
RECURSIVE digitsValue(_, _, _)
digitsValue(s, i, j) ==
  IF i >= j THEN 0 ELSE 10 * digitsValue(s, i, j - 1) + (s[j - 1] - 48)

\* the digits of a fraction without its trailing zeros
RECURSIVE fracDigits(_, _, _)
fracDigits(s, i, j) ==
  IF i >= j THEN <<>>
  ELSE IF s[j - 1] = 48 THEN fracDigits(s, i, j - 1)
  ELSE [k \in 1..(j - i) |-> s[i + k - 1] - 48]

\* -? (0 | [1-9][0-9]*) (. [0-9]+)?
parseNumber(s, i) ==
  LET neg  == s[i] = 45
      d    == IF neg THEN i + 1 ELSE i
      e    == IF d <= Len(s) /\ s[d] = 48 THEN d + 1 ELSE digitsEnd(s, d)
      dot  == e <= Len(s) /\ s[e] = 46
      f    == IF dot THEN digitsEnd(s, e + 1) ELSE e
      int  == digitsValue(s, d, e)
      frac == IF dot THEN fracDigits(s, e + 1, f) ELSE <<>>
  IN  IF e = d \/ (dot /\ f = e + 1) THEN ParseFail
      ELSE ParseOk(JNum(neg /\ (int # 0 \/ frac # <<>>), int, frac), f)

StartsWithAt(s, i, pat) ==
  i + Len(pat) - 1 <= Len(s) /\ SubSeq(s, i, i + Len(pat) - 1) = pat

\* obj[key] = value: a key that is there keeps its place and gets the value
PutMember(members, k, v) ==
  IF \E i \in 1..Len(members) : members[i].k = k
  THEN [i \in 1..Len(members) |->
          IF members[i].k = k THEN Member(k, v) ELSE members[i]]
  ELSE Append(members, Member(k, v))

RECURSIVE parseValue(_, _)
RECURSIVE parseElements(_, _, _)
RECURSIVE parseMembers(_, _, _)

\* the value that starts at or after i
parseValue(s, i0) ==
  LET i == skipWs(s, i0)
  IN  IF i > Len(s) THEN ParseFail
      ELSE IF s[i] = 123
           THEN LET j == skipWs(s, i + 1)
                IN  IF j <= Len(s) /\ s[j] = 125 THEN ParseOk(JObj(<<>>), j + 1)
                    ELSE parseMembers(s, j, <<>>)
      ELSE IF s[i] = 91
           THEN LET j == skipWs(s, i + 1)
                IN  IF j <= Len(s) /\ s[j] = 93 THEN ParseOk(JArr(<<>>), j + 1)
                    ELSE parseElements(s, j, <<>>)
      ELSE IF s[i] = 34 THEN parseChars(s, i + 1, <<>>)
      ELSE IF s[i] = 45 \/ s[i] \in Digits THEN parseNumber(s, i)
      ELSE IF StartsWithAt(s, i, <<116, 114, 117, 101>>) THEN ParseOk(JBool(TRUE), i + 4)
      ELSE IF StartsWithAt(s, i, <<102, 97, 108, 115, 101>>) THEN ParseOk(JBool(FALSE), i + 5)
      ELSE IF StartsWithAt(s, i, <<110, 117, 108, 108>>) THEN ParseOk(JNull, i + 4)
      ELSE ParseFail

\* the elements of an array from i on, after the items read so far
parseElements(s, i, items) ==
  LET v == parseValue(s, i)
      e == skipWs(s, v.next)
  IN  IF ~v.ok \/ e > Len(s) THEN ParseFail
      ELSE IF s[e] = 44 THEN parseElements(s, e + 1, Append(items, v.v))
      ELSE IF s[e] = 93 THEN ParseOk(JArr(Append(items, v.v)), e + 1)
      ELSE ParseFail

\* the members of an object from i on, after the members read so far
parseMembers(s, i0, members) ==
  LET i == skipWs(s, i0)
      k == IF i <= Len(s) /\ s[i] = 34 THEN parseChars(s, i + 1, <<>>) ELSE ParseFail
      c == skipWs(s, k.next)
      v == IF k.ok /\ c <= Len(s) /\ s[c] = 58 THEN parseValue(s, c + 1) ELSE ParseFail
      e == skipWs(s, v.next)
  IN  IF ~v.ok \/ e > Len(s) THEN ParseFail
      ELSE IF s[e] = 44 THEN parseMembers(s, e + 1, PutMember(members, k.v.s, v.v))
      ELSE IF s[e] = 125 THEN ParseOk(JObj(PutMember(members, k.v.s, v.v)), e + 1)
      ELSE ParseFail

\* JSON.parse(text): the value, or a SyntaxError (ok = FALSE)
JSONparse(s) ==
  LET r == parseValue(s, 1)
  IN  IF r.ok /\ skipWs(s, r.next) > Len(s) THEN [ok |-> TRUE, v |-> r.v]
      ELSE [ok |-> FALSE, v |-> JNull]

\* the digits of a natural number
RECURSIVE natDigits(_)
natDigits(n) == IF n < 10 THEN <<48 + n>> ELSE Append(natDigits(n \div 10), 48 + (n % 10))

\* a string as JSON.stringify quotes it
\* the characters i..j of s, quoted; the text is taken by halves, so that a
\* long text (the system prompt) is quoted without deep recursion
RECURSIVE quoteChars(_, _, _)
quoteChars(s, i, j) ==
  IF i > j THEN <<>>
  ELSE IF i = j
  THEN CASE s[i] = 34 -> <<92, 34>>
         [] s[i] = 92 -> <<92, 92>>
         [] s[i] = 10 -> <<92, 110>>
         [] s[i] = 13 -> <<92, 114>>
         [] s[i] = 9  -> <<92, 116>>
         [] OTHER -> <<s[i]>>
  ELSE quoteChars(s, i, (i + j) \div 2) \o quoteChars(s, (i + j) \div 2 + 1, j)
quote(s) == <<34>> \o quoteChars(s, 1, Len(s)) \o <<34>>

RECURSIVE JSONstringify(_)
RECURSIVE joinValues(_, _)
RECURSIVE joinMembers(_, _)
\* JSON.stringify(value), without indentation
JSONstringify(v) ==
  CASE v.t = "null" -> <<110, 117, 108, 108>>
    [] v.t = "bool" -> IF v.b THEN <<116, 114, 117, 101>> ELSE <<102, 97, 108, 115, 101>>
    [] v.t = "num"  -> (IF v.neg THEN <<45>> ELSE <<>>) \o natDigits(v.int)
                       \o (IF v.frac = <<>> THEN <<>>
                           ELSE <<46>> \o [k \in 1..Len(v.frac) |-> 48 + v.frac[k]])
    [] v.t = "str"  -> quote(v.s)
    [] v.t = "arr"  -> <<91>> \o joinValues(v.items, 1) \o <<93>>
    [] v.t = "obj"  -> <<123>> \o joinMembers(v.members, 1) \o <<125>>
joinValues(items, i) ==
  IF i > Len(items) THEN <<>>
  ELSE (IF i > 1 THEN <<44>> ELSE <<>>) \o JSONstringify(items[i]) \o joinValues(items, i + 1)
joinMembers(members, i) ==
  IF i > Len(members) THEN <<>>
  ELSE (IF i > 1 THEN <<44>> ELSE <<>>) \o quote(members[i].k) \o <<58>>
       \o JSONstringify(members[i].v) \o joinMembers(members, i + 1)

(***************************************************************************)
(* Recovery of the answer: normalizeContent, repairJson and the fallback   *)
(* match of analyzeProducts.  Indices are those of JavaScript (from 0).    *)
(***************************************************************************)
\* a property that is absent (data.choices?.[0]?.message?.content)
JUndefined == [t |-> "undefined"]

\* String(value) of a value that is no string
StringOf(v) ==
  CASE v.t = "obj" -> <<91, 111, 98, 106, 101, 99, 116, 32, 79, 98, 106, 101, 99, 116, 93>>
    [] v.t \in {"null", "undefined"} -> <<>>
    [] OTHER -> JSONstringify(v)

\* the value of the member text of an object, when it is a string
HasTextString(v) ==
  v.t = "obj" /\ \E i \in 1..Len(v.members) :
                   v.members[i].k = <<116, 101, 120, 116>> /\ v.members[i].v.t = "str"
TextOf(v) ==
  LET i == CHOOSE j \in 1..Len(v.members) : v.members[j].k = <<116, 101, 120, 116>>
  IN  v.members[i].v.s

\* chunks.map(...).filter(Boolean).join('\n')
RECURSIVE joinChunks(_, _, _)
joinChunks(chunks, i, acc) ==
  IF i > Len(chunks) THEN acc
  ELSE LET chunk == chunks[i]
           text  == IF chunk.t = "str" THEN chunk.s
                    ELSE IF HasTextString(chunk) THEN TextOf(chunk)
                    ELSE <<>>
       IN  joinChunks(chunks, i + 1,
                      IF text = <<>> THEN acc
                      ELSE IF acc = <<>> THEN text
                      ELSE acc \o <<10>> \o text)

normalizeContent(c) ==
  IF c.t = "str" THEN trim(c.s)
  ELSE IF c.t = "arr" THEN trim(joinChunks(c.items, 1, <<>>))
  ELSE IF HasTextString(c) THEN TextOf(c)
  ELSE trim(IF c.t \in {"null", "undefined"} THEN <<>> ELSE StringOf(c))

\* s.indexOf(c) and s.lastIndexOf(c) of a character
indexOf_last(s, c) ==
  LET at == {i \in 1..Len(s) : s[i] = c}
  IN  IF at = {} THEN -1 ELSE SetMax(at) - 1
indexOf(s, c) ==
  LET at == {i \in 1..Len(s) : s[i] = c}
  IN  IF at = {} THEN -1 ELSE SetMin(at) - 1
lastIndexOf(s, c) ==
  LET at == {i \in 1..Len(s) : s[i] = c}
  IN  IF at = {} THEN -1 ELSE SetMax(at) - 1

\* (s.match(/c/g) || []).length
countOf(s, c) == Cardinality({i \in 1..Len(s) : s[i] = c})

\* a fence stands at the index i (from 1): three backticks, and for the
\* tagged one the letters json in either case
fenceAt(s, i, tagged) ==
  /\ StartsWithAt(s, i, <<96, 96, 96>>)
  /\ tagged => /\ i + 6 <= Len(s)
               /\ toLowerCase(SubSeq(s, i + 3, i + 6)) = <<106, 115, 111, 110>>

\* s.replace(/```json\s*/gi, '') (tagged) and s.replace(/```\s*/g, ''), from
\* the index i on: the text up to the next fence is kept, the fence and
\* the white space after it are dropped, and the search goes on behind them
RECURSIVE removeFences(_, _, _)
removeFences(s, i, tagged) ==
  LET fences == {j \in i..Len(s) : fenceAt(s, j, tagged)}
  IN  IF fences = {} THEN SubSeq(s, i, Len(s))
      ELSE LET j == SetMin(fences)
           IN  SubSeq(s, i, j - 1)
               \o removeFences(s, firstNonBlank(s, j + (IF tagged THEN 7 ELSE 3)), tagged)

\* the closers appended to a text cut to its last closing brace
closeBrackets_braceOnly(s) ==
  IF countOf(s, 123) > countOf(s, 125) THEN Append(s, 125) ELSE s
closeBrackets(s) ==
  LET withBracket == IF countOf(s, 91) > countOf(s, 93) THEN Append(s, 93) ELSE s
  IN  IF countOf(s, 123) > countOf(s, 125) THEN Append(withBracket, 125) ELSE withBracket

\* lines 147-160: the repair of a text that does not end with a closing brace
repairTruncated_always(s) ==
  LET lastComplete == lastIndexOf(s, 125)
  IN  IF lastComplete > 0 THEN closeBrackets(SubSeq(s, 1, lastComplete + 1))
      ELSE s
repairTruncated_firstBrace(s) ==
  IF s # <<>> /\ s[Len(s)] = 125 THEN s
  ELSE LET firstComplete == indexOf(s, 125)
       IN  IF firstComplete > 0 THEN closeBrackets(SubSeq(s, 1, firstComplete + 1))
           ELSE s
repairTruncated(s) ==
  IF s # <<>> /\ s[Len(s)] = 125 THEN s
  ELSE LET lastComplete == lastIndexOf(s, 125)
       IN  IF lastComplete > 0 THEN closeBrackets(SubSeq(s, 1, lastComplete + 1))
           ELSE s

\* lines 139-143: the text without fences, trimmed, from its first opening
\* brace on
fromFirstBrace(str) ==
  LET stripped == trim(removeFences(removeFences(str, 1, TRUE), 1, FALSE))
      start    == indexOf(stripped, 123)
  IN  IF start > 0 THEN SubSeq(stripped, start + 1, Len(stripped))
      ELSE stripped

repairJson(str) == repairTruncated(fromFirstBrace(str))

\* "results", quotes included
ResultsKey == <<34, 114, 101, 115, 117, 108, 116, 115, 34>>

\* raw.match(/\{[\s\S]*"results"[\s\S]*\}/): the text from the first opening
\* brace to the last closing brace, when "results" stands between them
matchResults(str) ==
  LET first == indexOf(str, 123)
      last  == lastIndexOf(str, 125)
      found == /\ first >= 0
               /\ \E q \in (first + 1)..(last - 9) : StartsWithAt(str, q + 1, ResultsKey)
  IN  [found |-> found,
       text  |-> IF found THEN SubSeq(str, first + 1, last + 1) ELSE <<>>]

\* the message of the error thrown at line 221: the answer of the model
\* could not be parsed, the position of the error may point to a cut JSON,
\* try again
ParseErrorMessage ==
  <<
    1053, 1077, 32, 1091, 1076, 1072, 1083, 1086, 1089, 1100, 32, 1088,
    1072, 1089, 1087, 1072, 1088, 1089, 1080, 1090, 1100, 32, 1086, 1090,
    1074, 1077, 1090, 32, 1084, 1086, 1076, 1077, 1083, 1080, 46, 32,
    1055, 1086, 1079, 1080, 1094, 1080, 1103, 32, 1086, 1096, 1080, 1073,
    1082, 1080, 32, 1084, 1086, 1078, 1077, 1090, 32, 1091, 1082, 1072,
    1079, 1099, 1074, 1072, 1090, 1100, 32, 1085, 1072, 32, 1086, 1073,
    1088, 1077, 1079, 1072, 1085, 1085, 1099, 1081, 32, 74, 83, 79, 78,
    32, 8212, 32, 1087, 1086, 1087, 1088, 1086, 1073, 1091, 1081, 1090,
    1077, 32, 1089, 1085, 1086, 1074, 1072, 46
  >>

\* what analyzeProducts returns or throws
Returned(v) == [kind |-> "ok", value |-> v]
Thrown(message) == [kind |-> "error", message |-> message]

(***************************************************************************)
(* The request: one line for every selected offer, the user prompt around  *)
(* the lines and the body handed to fetch.  A price is a whole number of   *)
(* roubles; a volume is given in thousandths of a litre and a price per    *)
(* litre as the fraction price / volume, as content.ts computes it.        *)
(***************************************************************************)
DEEPSEEK_MODEL == <<100, 101, 101, 112, 115, 101, 101, 107, 45, 99, 104, 97, 116>>
systemPrompt ==
  <<1058, 1099, 32, 1101, 1082, 1089, 1087, 1077, 1088, 1090, 32, 1087, 1086, 32, 1072, 1085,
    1072, 1083, 1080, 1079, 1091, 32, 1072, 1074, 1090, 1086, 1079, 1072, 1087, 1095, 1072, 1089,
    1090, 1077, 1081, 46, 32, 1058, 1077, 1073, 1077, 32, 1076, 1072, 1076, 1091, 1090, 32,
    1089, 1087, 1080, 1089, 1086, 1082, 32, 1087, 1088, 1077, 1076, 1083, 1086, 1078, 1077, 1085,
    1080, 1081, 32, 1086, 1076, 1085, 1086, 1081, 32, 1080, 32, 1090, 1086, 1081, 32, 1078,
    1077, 32, 1076, 1077, 1090, 1072, 1083, 1080, 32, 1086, 1090, 32, 1088, 1072, 1079, 1085,
    1099, 1093, 32, 1087, 1086, 1089, 1090, 1072, 1074, 1097, 1080, 1082, 1086, 1074, 32, 1089,
    32, 1089, 1072, 1081, 1090, 1072, 32, 101, 120, 105, 115, 116, 46, 114, 117, 46,
    10, 10, 1057, 1090, 1088, 1091, 1082, 1090, 1091, 1088, 1072, 32, 1082, 1072, 1078, 1076,
    1086, 1075, 1086, 32, 1087, 1088, 1077, 1076, 1083, 1086, 1078, 1077, 1085, 1080, 1103, 58,
    10, 45, 32, 1055, 1088, 1086, 1080, 1079, 1074, 1086, 1076, 1080, 1090, 1077, 1083, 1100,
    32, 40, 1073, 1088, 1077, 1085, 1076, 32, 1076, 1077, 1090, 1072, 1083, 1080, 41, 32,
    8212, 32, 1085, 1072, 1087, 1088, 1080, 1084, 1077, 1088, 32, 34, 71, 101, 101, 108,
    121, 34, 44, 32, 34, 66, 111, 115, 99, 104, 34, 44, 32, 34, 76, 85,
    75, 34, 10, 45, 32, 1040, 1088, 1090, 1080, 1082, 1091, 1083, 32, 8212, 32, 1085,
    1086, 1084, 1077, 1088, 32, 1076, 1077, 1090, 1072, 1083, 1080, 10, 45, 32, 1055, 1086,
    1089, 1090, 1072, 1074, 1097, 1080, 1082, 32, 8212, 32, 1087, 1088, 1086, 1076, 1072, 1074,
    1077, 1094, 32, 1085, 1072, 32, 101, 120, 105, 115, 116, 46, 114, 117, 32, 40,
    1085, 1077, 32, 1087, 1088, 1086, 1080, 1079, 1074, 1086, 1076, 1080, 1090, 1077, 1083, 1100,
    41, 10, 45, 32, 1062, 1077, 1085, 1072, 32, 1074, 32, 1088, 1091, 1073, 1083, 1103,
    1093, 10, 45, 32, 1044, 1072, 1090, 1072, 32, 1076, 1086, 1089, 1090, 1072, 1074, 1082,
    1080, 32, 8212, 32, 1082, 1086, 1075, 1076, 1072, 32, 1076, 1077, 1090, 1072, 1083, 1100,
    32, 1073, 1091, 1076, 1077, 1090, 32, 1076, 1086, 1089, 1090, 1091, 1087, 1085, 1072, 10,
    10, 1050, 1088, 1080, 1090, 1077, 1088, 1080, 1080, 32, 1086, 1094, 1077, 1085, 1082, 1080,
    32, 40, 1087, 1086, 32, 1091, 1073, 1099, 1074, 1072, 1085, 1080, 1102, 32, 1074, 1072,
    1078, 1085, 1086, 1089, 1090, 1080, 41, 58, 10, 49, 46, 32, 1055, 1088, 1086, 1080,
    1079, 1074, 1086, 1076, 1080, 1090, 1077, 1083, 1100, 32, 8212, 32, 1086, 1088, 1080, 1075,
    1080, 1085, 1072, 1083, 32, 40, 1089, 1086, 1074, 1087, 1072, 1076, 1072, 1077, 1090, 32,
    1089, 32, 1084, 1072, 1088, 1082, 1086, 1081, 32, 1072, 1074, 1090, 1086, 32, 1080, 1083,
    1080, 32, 1080, 1079, 1074, 1077, 1089, 1090, 1085, 1099, 1081, 32, 79, 69, 77, 41,
    32, 62, 32, 1080, 1079, 1074, 1077, 1089, 1090, 1085, 1099, 1081, 32, 1073, 1088, 1077,
    1085, 1076, 32, 1079, 1072, 1087, 1095, 1072, 1089, 1090, 1077, 1081, 32, 62, 32, 1085,
    1077, 1080, 1079, 1074, 1077, 1089, 1090, 1085, 1099, 1081, 10, 50, 46, 32, 1062, 1077,
    1085, 1072, 32, 8212, 32, 1076, 1083, 1103, 32, 1078, 1080, 1076, 1082, 1086, 1089, 1090,
    1077, 1081, 32, 1089, 1088, 1072, 1074, 1085, 1080, 1074, 1072, 1081, 32, 1087, 1086, 32,
    34, 1062, 1077, 1085, 1072, 32, 1079, 1072, 32, 1083, 1080, 1090, 1088, 34, 32, 40,
    8381, 47, 1083, 41, 44, 32, 1072, 32, 1085, 1077, 32, 1087, 1086, 32, 1086, 1073,
    1097, 1077, 1081, 32, 1094, 1077, 1085, 1077, 46, 32, 1044, 1083, 1103, 32, 1086, 1089,
    1090, 1072, 1083, 1100, 1085, 1099, 1093, 32, 1090, 1086, 1074, 1072, 1088, 1086, 1074, 32,
    8212, 32, 1087, 1086, 32, 1086, 1073, 1097, 1077, 1081, 32, 1094, 1077, 1085, 1077, 46,
    32, 1063, 1077, 1084, 32, 1085, 1080, 1078, 1077, 32, 1086, 1090, 1085, 1086, 1089, 1080,
    1090, 1077, 1083, 1100, 1085, 1086, 32, 1089, 1088, 1077, 1076, 1085, 1077, 1075, 1086, 32,
    1087, 1086, 32, 1089, 1087, 1080, 1089, 1082, 1091, 44, 32, 1090, 1077, 1084, 32, 1083,
    1091, 1095, 1096, 1077, 10, 51, 46, 32, 1044, 1072, 1090, 1072, 32, 1076, 1086, 1089,
    1090, 1072, 1074, 1082, 1080, 32, 8212, 32, 1095, 1077, 1084, 32, 1088, 1072, 1085, 1100,
    1096, 1077, 44, 32, 1090, 1077, 1084, 32, 1083, 1091, 1095, 1096, 1077, 10, 10, 1055,
    1088, 1072, 1074, 1080, 1083, 1072, 58, 10, 45, 32, 1054, 1088, 1080, 1075, 1080, 1085,
    1072, 1083, 1100, 1085, 1072, 1103, 32, 1076, 1077, 1090, 1072, 1083, 1100, 32, 1087, 1086,
    32, 1089, 1088, 1077, 1076, 1085, 1077, 1081, 32, 1094, 1077, 1085, 1077, 32, 1083, 1091,
    1095, 1096, 1077, 32, 1076, 1077, 1096, 1105, 1074, 1086, 1075, 1086, 32, 1072, 1085, 1072,
    1083, 1086, 1075, 1072, 10, 45, 32, 1045, 1089, 1083, 1080, 32, 1094, 1077, 1085, 1072,
    32, 1085, 1077, 32, 1091, 1082, 1072, 1079, 1072, 1085, 1072, 32, 8212, 32, 115, 99,
    111, 114, 101, 32, 1085, 1077, 32, 1074, 1099, 1096, 1077, 32, 52, 10, 45, 32,
    1053, 1077, 32, 1087, 1088, 1080, 1076, 1091, 1084, 1099, 1074, 1072, 1081, 32, 1093, 1072,
    1088, 1072, 1082, 1090, 1077, 1088, 1080, 1089, 1090, 1080, 1082, 1080, 32, 1076, 1077, 1090,
    1072, 1083, 1080, 32, 8212, 32, 1086, 1094, 1077, 1085, 1080, 1074, 1072, 1081, 32, 1090,
    1086, 1083, 1100, 1082, 1086, 32, 1087, 1086, 32, 1076, 1072, 1085, 1085, 1099, 1084, 32,
    1080, 1079, 32, 1089, 1087, 1080, 1089, 1082, 1072, 10, 10, 1054, 1062, 1045, 1053, 1050,
    1040, 32, 1056, 1048, 1057, 1050, 1040, 32, 1055, 1054, 1044, 1044, 1045, 1051, 1050, 1048,
    32, 40, 99, 111, 117, 110, 116, 101, 114, 102, 101, 105, 116, 82, 105, 115,
    107, 41, 58, 10, 1044, 1083, 1103, 32, 1082, 1072, 1078, 1076, 1086, 1075, 1086, 32,
    1090, 1086, 1074, 1072, 1088, 1072, 32, 1086, 1094, 1077, 1085, 1080, 32, 1088, 1080, 1089,
    1082, 32, 1087, 1086, 1076, 1076, 1077, 1083, 1082, 1080, 32, 1085, 1072, 32, 1086, 1089,
    1085, 1086, 1074, 1077, 32, 1089, 1083, 1077, 1076, 1091, 1102, 1097, 1080, 1093, 32, 1092,
    1072, 1082, 1090, 1086, 1088, 1086, 1074, 58, 10, 49, 46, 32, 1055, 1086, 1087, 1091,
    1083, 1103, 1088, 1085, 1086, 1089, 1090, 1100, 32, 1073, 1088, 1077, 1085, 1076, 1072, 32,
    8212, 32, 1080, 1079, 1074, 1077, 1089, 1090, 1085, 1099, 1077, 32, 1073, 1088, 1077, 1085,
    1076, 1099, 32, 40, 66, 111, 115, 99, 104, 44, 32, 67, 97, 115, 116, 114,
    111, 108, 44, 32, 77, 111, 98, 105, 108, 44, 32, 83, 104, 101, 108, 108,
    44, 32, 84, 111, 116, 97, 108, 44, 32, 90, 73, 67, 44, 32, 1086, 1088,
    1080, 1075, 1080, 1085, 1072, 1083, 1100, 1085, 1099, 1077, 32, 1079, 1072, 1087, 1095, 1072,
    1089, 1090, 1080, 41, 32, 1087, 1086, 1076, 1076, 1077, 1083, 1099, 1074, 1072, 1102, 1090,
    32, 1095, 1072, 1097, 1077, 10, 50, 46, 32, 1062, 1077, 1085, 1072, 32, 8212, 32,
    1077, 1089, 1083, 1080, 32, 1080, 1079, 1074, 1077, 1089, 1090, 1085, 1099, 1081, 32, 1073,
    1088, 1077, 1085, 1076, 32, 1089, 1090, 1086, 1080, 1090, 32, 1079, 1085, 1072, 1095, 1080,
    1090, 1077, 1083, 1100, 1085, 1086, 32, 1076, 1077, 1096, 1077, 1074, 1083, 1077, 32, 1089,
    1088, 1077, 1076, 1085, 1077, 1075, 1086, 32, 40, 62, 51, 48, 37, 41, 32, 8212,
    32, 1074, 1099, 1089, 1086, 1082, 1080, 1081, 32, 1088, 1080, 1089, 1082, 32, 1087, 1086,
    1076, 1076, 1077, 1083, 1082, 1080, 10, 51, 46, 32, 1058, 1080, 1087, 32, 1090, 1086,
    1074, 1072, 1088, 1072, 32, 8212, 32, 1084, 1086, 1090, 1086, 1088, 1085, 1099, 1077, 32,
    1084, 1072, 1089, 1083, 1072, 44, 32, 1092, 1080, 1083, 1100, 1090, 1088, 1099, 44, 32,
    1090, 1086, 1088, 1084, 1086, 1079, 1085, 1099, 1077, 32, 1082, 1086, 1083, 1086, 1076, 1082,
    1080, 32, 1087, 1086, 1076, 1076, 1077, 1083, 1099, 1074, 1072, 1102, 1090, 32, 1095, 1072,
    1097, 1077, 32, 1074, 1089, 1077, 1075, 1086, 10, 10, 1059, 1088, 1086, 1074, 1085, 1080,
    32, 1088, 1080, 1089, 1082, 1072, 58, 10, 45, 32, 34, 104, 105, 103, 104, 34,
    32, 8212, 32, 1080, 1079, 1074, 1077, 1089, 1090, 1085, 1099, 1081, 32, 1073, 1088, 1077,
    1085, 1076, 32, 1087, 1086, 32, 1087, 1086, 1076, 1086, 1079, 1088, 1080, 1090, 1077, 1083,
    1100, 1085, 1086, 32, 1085, 1080, 1079, 1082, 1086, 1081, 32, 1094, 1077, 1085, 1077, 44,
    32, 1080, 1083, 1080, 32, 1089, 1072, 1084, 1099, 1077, 32, 1087, 1086, 1076, 1076, 1077,
    1083, 1099, 1074, 1072, 1077, 1084, 1099, 1077, 32, 1082, 1072, 1090, 1077, 1075, 1086, 1088,
    1080, 1080, 32, 40, 1084, 1072, 1089, 1083, 1072, 32, 1087, 1088, 1077, 1084, 1080, 1091,
    1084, 45, 1073, 1088, 1077, 1085, 1076, 1086, 1074, 41, 10, 45, 32, 34, 109, 101,
    100, 105, 117, 109, 34, 32, 8212, 32, 1087, 1086, 1087, 1091, 1083, 1103, 1088, 1085,
    1099, 1081, 32, 1073, 1088, 1077, 1085, 1076, 32, 1087, 1086, 32, 1089, 1088, 1077, 1076,
    1085, 1077, 1081, 32, 1094, 1077, 1085, 1077, 44, 32, 1080, 1083, 1080, 32, 1084, 1077,
    1085, 1077, 1077, 32, 1080, 1079, 1074, 1077, 1089, 1090, 1085, 1099, 1081, 32, 1073, 1088,
    1077, 1085, 1076, 32, 1087, 1086, 32, 1085, 1080, 1079, 1082, 1086, 1081, 32, 1094, 1077,
    1085, 1077, 10, 45, 32, 34, 108, 111, 119, 34, 32, 8212, 32, 1084, 1072, 1083,
    1086, 1080, 1079, 1074, 1077, 1089, 1090, 1085, 1099, 1081, 32, 1073, 1088, 1077, 1085, 1076,
    44, 32, 1086, 1088, 1080, 1075, 1080, 1085, 1072, 1083, 1100, 1085, 1099, 1077, 32, 1079,
    1072, 1087, 1095, 1072, 1089, 1090, 1080, 32, 1087, 1086, 32, 1072, 1076, 1077, 1082, 1074,
    1072, 1090, 1085, 1086, 1081, 32, 1094, 1077, 1085, 1077, 44, 32, 1080, 1083, 1080, 32,
    1090, 1086, 1074, 1072, 1088, 1099, 32, 1082, 1086, 1090, 1086, 1088, 1099, 1077, 32, 1088,
    1077, 1076, 1082, 1086, 32, 1087, 1086, 1076, 1076, 1077, 1083, 1099, 1074, 1072, 1102, 1090,
    10, 10, 1042, 32, 1087, 1086, 1083, 1077, 32, 99, 111, 117, 110, 116, 101, 114,
    102, 101, 105, 116, 82, 101, 97, 115, 111, 110, 32, 1082, 1088, 1072, 1090, 1082,
    1086, 32, 1086, 1073, 1098, 1103, 1089, 1085, 1080, 32, 1087, 1086, 1095, 1077, 1084, 1091,
    32, 1090, 1072, 1082, 1086, 1081, 32, 1091, 1088, 1086, 1074, 1077, 1085, 1100, 32, 1088,
    1080, 1089, 1082, 1072, 32, 40, 49, 32, 1087, 1088, 1077, 1076, 1083, 1086, 1078, 1077,
    1085, 1080, 1077, 41, 46, 10, 10, 1054, 1090, 1074, 1077, 1095, 1072, 1081, 32, 1057,
    1058, 1056, 1054, 1043, 1054, 32, 1074, 32, 1092, 1086, 1088, 1084, 1072, 1090, 1077, 32,
    74, 83, 79, 78, 32, 40, 1073, 1077, 1079, 32, 109, 97, 114, 107, 100, 111,
    119, 110, 32, 1073, 1083, 1086, 1082, 1086, 1074, 41, 58, 10, 123, 10, 32, 32,
    34, 114, 101, 115, 117, 108, 116, 115, 34, 58, 32, 91, 10, 32, 32, 32,
    32, 123, 10, 32, 32, 32, 32, 32, 32, 34, 114, 97, 110, 107, 34, 58,
    32, 49, 44, 10, 32, 32, 32, 32, 32, 32, 34, 110, 97, 109, 101, 34,
    58, 32, 34, 1055, 1088, 1086, 1080, 1079, 1074, 1086, 1076, 1080, 1090, 1077, 1083, 1100,
    32, 1040, 1088, 1090, 1080, 1082, 1091, 1083, 34, 44, 10, 32, 32, 32, 32, 32,
    32, 34, 98, 114, 97, 110, 100, 34, 58, 32, 34, 1087, 1088, 1086, 1080, 1079,
    1074, 1086, 1076, 1080, 1090, 1077, 1083, 1100, 34, 44, 10, 32, 32, 32, 32, 32,
    32, 34, 112, 114, 105, 99, 101, 34, 58, 32, 49, 50, 51, 52, 44, 10,
    32, 32, 32, 32, 32, 32, 34, 115, 99, 111, 114, 101, 34, 58, 32, 56,
    46, 53, 44, 10, 32, 32, 32, 32, 32, 32, 34, 118, 101, 114, 100, 105,
    99, 116, 34, 58, 32, 34, 1054, 1088, 1080, 1075, 1080, 1085, 1072, 1083, 1100, 1085,
    1072, 1103, 32, 1076, 1077, 1090, 1072, 1083, 1100, 32, 1087, 1086, 32, 1083, 1091, 1095,
    1096, 1077, 1081, 32, 1094, 1077, 1085, 1077, 34, 44, 10, 32, 32, 32, 32, 32,
    32, 34, 112, 114, 111, 115, 34, 58, 32, 91, 34, 1087, 1083, 1102, 1089, 32,
    49, 34, 44, 32, 34, 1087, 1083, 1102, 1089, 32, 50, 34, 93, 44, 10, 32,
    32, 32, 32, 32, 32, 34, 99, 111, 110, 115, 34, 58, 32, 91, 34, 1084,
    1080, 1085, 1091, 1089, 32, 49, 34, 93, 44, 10, 32, 32, 32, 32, 32, 32,
    34, 114, 101, 99, 111, 109, 109, 101, 110, 100, 97, 116, 105, 111, 110, 34,
    58, 32, 34, 1056, 1077, 1082, 1086, 1084, 1077, 1085, 1076, 1091, 1077, 1090, 1089, 1103,
    34, 44, 10, 32, 32, 32, 32, 32, 32, 34, 99, 111, 117, 110, 116, 101,
    114, 102, 101, 105, 116, 82, 105, 115, 107, 34, 58, 32, 34, 108, 111, 119,
    34, 44, 10, 32, 32, 32, 32, 32, 32, 34, 99, 111, 117, 110, 116, 101,
    114, 102, 101, 105, 116, 82, 101, 97, 115, 111, 110, 34, 58, 32, 34, 1054,
    1088, 1080, 1075, 1080, 1085, 1072, 1083, 1100, 1085, 1072, 1103, 32, 1079, 1072, 1087, 1095,
    1072, 1089, 1090, 1100, 32, 1087, 1086, 32, 1088, 1099, 1085, 1086, 1095, 1085, 1086, 1081,
    32, 1094, 1077, 1085, 1077, 34, 10, 32, 32, 32, 32, 125, 10, 32, 32, 93,
    44, 10, 32, 32, 34, 115, 117, 109, 109, 97, 114, 121, 34, 58, 32, 34,
    1050, 1088, 1072, 1090, 1082, 1080, 1081, 32, 1080, 1090, 1086, 1075, 58, 32, 1076, 1080,
    1072, 1087, 1072, 1079, 1086, 1085, 32, 1094, 1077, 1085, 44, 32, 1083, 1091, 1095, 1096,
    1080, 1081, 32, 1087, 1088, 1086, 1080, 1079, 1074, 1086, 1076, 1080, 1090, 1077, 1083, 1100,
    32, 1080, 32, 1087, 1088, 1077, 1076, 1083, 1086, 1078, 1077, 1085, 1080, 1077, 34, 44,
    10, 32, 32, 34, 98, 101, 115, 116, 67, 104, 111, 105, 99, 101, 34, 58,
    32, 34, 1055, 1088, 1086, 1080, 1079, 1074, 1086, 1076, 1080, 1090, 1077, 1083, 1100, 32,
    1040, 1088, 1090, 1080, 1082, 1091, 1083, 32, 1091, 32, 1087, 1086, 1089, 1090, 1072, 1074,
    1097, 1080, 1082, 1072, 34, 10, 125, 10, 10, 1054, 1094, 1077, 1085, 1082, 1072, 32,
    115, 99, 111, 114, 101, 32, 1086, 1090, 32, 49, 32, 1076, 1086, 32, 49, 48,
    46, 32, 1057, 1086, 1088, 1090, 1080, 1088, 1091, 1081, 32, 1088, 1077, 1079, 1091, 1083,
    1100, 1090, 1072, 1090, 1099, 32, 1087, 1086, 32, 1091, 1073, 1099, 1074, 1072, 1085, 1080,
    1102, 32, 115, 99, 111, 114, 101, 46>>

\* a field of an offer; a field the offer does not have is undefined
textField(p, name) == IF name \in DOMAIN p THEN p[name] ELSE Undefined
\* if (text): the empty string and undefined are falsy
truthyText(s) == s # <<>> /\ s # Undefined
\* if (p.volume), if (p.pricePerLiter): undefined and 0 are falsy
hasVolume(p) == "volume" \in DOMAIN p /\ p.volume # 0
hasPricePerLiter(p) == "pricePerLiter" \in DOMAIN p /\ p.pricePerLiter.num # 0

\* String(x) of a number of thousandths: 4000 is "4", 500 is "0.5"
RECURSIVE dropZeros(_)
dropZeros(ds) ==
  IF ds # <<>> /\ ds[Len(ds)] = 48 THEN dropZeros(SubSeq(ds, 1, Len(ds) - 1)) ELSE ds
numberText(x) ==
  LET frac == dropZeros(<<48 + (x % 1000) \div 100, 48 + (x % 100) \div 10, 48 + (x % 10)>>)
  IN  natDigits(x \div 1000) \o (IF frac = <<>> THEN <<>> ELSE <<46>> \o frac)
\* Math.round of a positive fraction: halves go up
MathRound(f) == (2 * f.num + f.den) \div (2 * f.den)

\* parts.join(', '), lines.join('\n')
RECURSIVE join(_, _)
join(parts, sep) ==
  IF parts = <<>> THEN <<>>
  ELSE IF Len(parts) = 1 THEN parts[1]
  ELSE parts[1] \o sep \o join(Tail(parts), sep)

NoDataText == <<1085, 1077, 1090, 32, 1076, 1072, 1085, 1085, 1099, 1093>>
\* p.price > 0 ? p.price + ' ₽' : 'нет данных'
priceText(p) == IF p.price > 0 THEN natDigits(p.price) \o <<32, 8381>> ELSE NoDataText

\* lines 169-178: the line of the offer p, the i-th of the selection
productLine(p, i) ==
  join(<<natDigits(i) \o <<46, 32, 1055, 1088, 1086, 1080, 1079, 1074, 1086, 1076, 1080, 1090, 1077, 1083, 1100, 58, 32>>
           \o (IF truthyText(p.manufacturer) THEN p.manufacturer ELSE UnknownLabel)>>
       \o (IF truthyText(textField(p, "partNumber"))
           THEN <<<<1040, 1088, 1090, 1080, 1082, 1091, 1083, 58, 32>> \o p.partNumber>> ELSE <<>>)
       \o (IF truthyText(textField(p, "description"))
           THEN <<<<1044, 1077, 1090, 1072, 1083, 1100, 58, 32>> \o p.description>> ELSE <<>>)
       \o (IF hasVolume(p)
           THEN <<<<1054, 1073, 1098, 1105, 1084, 58, 32>> \o numberText(p.volume) \o <<32, 1083>>>> ELSE <<>>)
       \o <<<<1062, 1077, 1085, 1072, 58, 32>> \o priceText(p)>>
       \o (IF hasPricePerLiter(p)
           THEN <<<<1062, 1077, 1085, 1072, 32, 1079, 1072, 32, 1083, 1080, 1090, 1088, 58, 32>> \o natDigits(MathRound(p.pricePerLiter)) \o <<32, 8381, 47, 1083>>>> ELSE <<>>)
       \o (IF truthyText(textField(p, "supplier"))
           THEN <<<<1055, 1086, 1089, 1090, 1072, 1074, 1097, 1080, 1082, 58, 32>> \o p.supplier>> ELSE <<>>)
       \o (IF truthyText(textField(p, "deliveryDate"))
           THEN <<<<1044, 1072, 1090, 1072, 32, 1076, 1086, 1089, 1090, 1072, 1074, 1082, 1080, 58, 32>> \o p.deliveryDate>> ELSE <<>>),
       <<44, 32>>)

\* lines 167-180: limited.map(...).join('\n')
productList(list) == join([i \in 1..Len(list) |-> productLine(list[i], i)], <<10>>)

\* line 182: the user prompt announces limited.length offers
userPrompt(list) ==
  <<1057, 1087, 1080, 1089, 1086, 1082, 32, 1087, 1088, 1077, 1076, 1083, 1086, 1078, 1077, 1085, 1080, 1081, 32, 1076, 1083, 1103, 32, 1072, 1085, 1072, 1083, 1080, 1079, 1072, 32, 40>> \o natDigits(Len(list)) \o <<32, 1096, 1090, 46, 41, 58, 10>> \o productList(list) \o <<10, 10, 1055, 1088, 1086, 1072, 1085, 1072, 1083, 1080, 1079, 1080, 1088, 1091, 1081, 32, 1087, 1086, 32, 1082, 1088, 1080, 1090, 1077, 1088, 1080, 1102, 32, 1094, 1077, 1085, 1072, 47, 1082, 1072, 1095, 1077, 1089, 1090, 1074, 1086, 32, 1080, 32, 1074, 1077, 1088, 1085, 1080, 32, 74, 83, 79, 78, 46>>

\* lines 190-198: the body of the call
requestBody(list) ==
  JSONstringify(JObj(<<
    Member(<<109, 111, 100, 101, 108>>, JStr(DEEPSEEK_MODEL)),
    Member(<<109, 101, 115, 115, 97, 103, 101, 115>>, JArr(<<
      JObj(<<Member(<<114, 111, 108, 101>>, JStr(<<115, 121, 115, 116, 101, 109>>)),
             Member(<<99, 111, 110, 116, 101, 110, 116>>, JStr(systemPrompt))>>),
      JObj(<<Member(<<114, 111, 108, 101>>, JStr(<<117, 115, 101, 114>>)),
             Member(<<99, 111, 110, 116, 101, 110, 116>>,
                    JStr(userPrompt(list)))>>)>>)),
    Member(<<109, 97, 120, 95, 116, 111, 107, 101, 110, 115>>, JInt(4096)),
    Member(<<116, 101, 109, 112, 101, 114, 97, 116, 117, 114, 101>>,
           JNum(FALSE, 0, <<3>>))>>))

\* a call of fetch: the selection it was built from, its user prompt and body
Request(list) ==
  [offers |-> list, userPrompt |-> userPrompt(list), body |-> requestBody(list)]

(***************************************************************************)
(* The offer lists the selection is run on.  An offer is a record of its   *)
(* manufacturer, price and supplier; the supplier names the position of    *)
(* the offer in the list, so that two offers of a list are never equal.    *)
(***************************************************************************)
Offer(m, price, i) == [manufacturer |-> m, price |-> price, supplier |-> <<83, 64 + i>>]

\* "", " ", "Bo", " bO " and the label of the unknown group
SmallMfrs == {<<>>, <<32>>, <<66, 111>>, <<32, 98, 79, 32>>, UnknownLabel}
\* the manufacturers that name nobody: "", undefined, " " and " \t"
BlankMfrs == {<<>>, Undefined, <<32>>, <<32, 9>>}
SmallPrices == {0, 100, 300}

\* a list of n offers over SmallMfrs and SmallPrices
SmallList(n, f) == [i \in 1..n |-> Offer(f[i][1], f[i][2], i)]

\* one manufacturer with the prices 100, 200, 300 and 1000 in every order,
\* alone or with one more offer (unpriced, or of another manufacturer) put
\* anywhere in the list
OutlierPrices == {100, 200, 300, 1000}
OutlierOrders == {f \in [1..4 -> OutlierPrices] : \A i, j \in 1..4 : f[i] = f[j] => i = j}
Insert(list, k, x) == SubSeq(list, 1, k - 1) \o <<x>> \o SubSeq(list, k, Len(list))
OutlierList(f, v) ==
  [i \in 1..4 |-> Offer(IF i = v THEN <<32, 98, 79, 32>> ELSE <<66, 111>>, f[i], i)]
OutlierExtras == {<<<<66, 111>>, 0>>, <<<<66, 111>>, -50>>, <<<<76, 117>>, 150>>}

\* many manufacturers: n manufacturers "Ma", "Mb", ... taken from the s-th on,
\* the first d of them with a second offer (written " MA", " MB", ...) that
\* follows the first one directly (adj) or comes after all first offers; the
\* offer at position z has no price; prices are all 100 (flat) or vary
WideMfr(j, second) == IF second THEN <<32, 77, 65 + j>> ELSE <<77, 97 + j>>
WideList(n, s, d, adj, z, flat) ==
  [i \in 1..(n + d) |->
     LET second == IF adj THEN i <= 2 * d /\ i % 2 = 0 ELSE i > n
         idx    == IF adj THEN (IF i <= 2 * d THEN (i - 1) \div 2 ELSE i - 1 - d)
                   ELSE (IF i <= n THEN i - 1 ELSE i - 1 - n)
     IN  Offer(WideMfr((idx + s) % n, second),
               IF i = z THEN -50
               ELSE IF flat THEN 100 ELSE 100 * (1 + ((3 * i + idx) % 4)),
               i)]
\* the offer lists of the initial states
IsOfferList(list) ==
  \/ \E n \in 0..MaxLen : \E f \in [1..n -> SmallMfrs \X SmallPrices] :
       list = SmallList(n, f)
  \/ \E n \in 1..MaxLen : \E f \in [1..n -> BlankMfrs \X {100, 300}] :
       list = SmallList(n, f)
  \/ \E f \in OutlierOrders : \E v \in 0..4 : list = OutlierList(f, v)
  \/ \E f \in OutlierOrders : \E k \in 1..5 : \E x \in OutlierExtras :
       list = Insert(OutlierList(f, 0), k, Offer(x[1], x[2], 5))
  \/ \E n \in (MAX_MANUFACTURERS - 1)..(MAX_MANUFACTURERS + MaxExtraMfrs) :
     \E s \in 0..2 : \E d \in 0..MaxDup : \E adj \in BOOLEAN :
     \E z \in 0..(MAX_MANUFACTURERS + 1) : \E flat \in BOOLEAN :
       list = WideList(n, s, d, adj, z, flat)

(***************************************************************************)
(* The selection as a state machine: analyzeProducts is called with the    *)
(* offers of the message and runs truncateProducts on them.                *)
(***************************************************************************)
NoOutcome == [kind |-> "none"]
NoAnswer == [value |-> JUndefined, wrap |-> "none", cut |-> -1, shape |-> "none"]
\* the transport has not been called
NoResp == [kind |-> "none", status |-> 0, body |-> <<>>]
\* the transport answers with a success status and a body that decodes
OkResp == [kind |-> "ok", status |-> 200, body |-> <<>>]

InitSelect ==
  /\ IsOfferList(products)
  /\ groups = <<>>
  /\ limited = <<>>
  /\ requests = <<>>
  /\ resp = NoResp
  /\ answer = NoAnswer
  /\ content = JUndefined
  /\ raw = <<>>
  /\ outcome = NoOutcome
  /\ replies = <<>>
  /\ pc = "start"
  /\ OuterIdle

\* const limited = truncateProducts(products)
Truncate ==
  /\ pc = "start"
  /\ LET map == groupsOf(withPrice(products), <<>>)
     IN  /\ groups' = map
         /\ IF reduceThrows(map)
            THEN limited' = <<>> /\ pc' = "threw"
            ELSE limited' = resultOf(map) /\ pc' = "truncated"
  /\ UNCHANGED <<products, requests, resp, answer, content, raw, outcome, replies>>
  /\ UNCHANGED outerVars

NextSelect == Truncate

SpecSelect == InitSelect /\ [][NextSelect]_vars

(***************************************************************************)
(* The replies the recovery is run on.                                     *)
(***************************************************************************)
\* the keys of an AnalysisResponse and of an AnalysisResult
Key ==
  [results |-> <<114, 101, 115, 117, 108, 116, 115>>,
   summary |-> <<115, 117, 109, 109, 97, 114, 121>>,
   bestChoice |-> <<98, 101, 115, 116, 67, 104, 111, 105, 99, 101>>,
   rank |-> <<114, 97, 110, 107>>,
   name |-> <<110, 97, 109, 101>>,
   brand |-> <<98, 114, 97, 110, 100>>,
   price |-> <<112, 114, 105, 99, 101>>,
   score |-> <<115, 99, 111, 114, 101>>,
   verdict |-> <<118, 101, 114, 100, 105, 99, 116>>,
   pros |-> <<112, 114, 111, 115>>,
   cons |-> <<99, 111, 110, 115>>,
   recommendation |-> <<114, 101, 99, 111, 109, 109, 101, 110, 100, 97, 116, 105, 111, 110>>,
   counterfeitRisk |-> <<99, 111, 117, 110, 116, 101, 114, 102, 101, 105, 116, 82, 105, 115, 107>>]

\* the texts of the text fields: s; a, a fence, b; a tagged fence, a space, x; x}y; {; q"t; l, line feed, m
Texts ==
  {<<115>>,
   <<97, 96, 96, 96, 98>>,
   <<96, 96, 96, 106, 115, 111, 110, 32, 120>>,
   <<120, 125, 121>>,
   <<123>>,
   <<113, 34, 116>>,
   <<108, 10, 109>>}
\* the texts among them that hold a fence
FenceTexts == {<<97, 96, 96, 96, 98>>, <<96, 96, 96, 106, 115, 111, 110, 32, 120>>}

\* an AnalysisResult with every field of the interface but the optional
\* counterfeitReason: brand "b", price 1234, score 8.5, verdict "v",
\* pros ["p"], cons [], recommendation "r", counterfeitRisk "low"
Result(rank, name) ==
  JObj(<<Member(Key.rank, JInt(rank)),
         Member(Key.name, JStr(name)),
         Member(Key.brand, JStr(<<98>>)),
         Member(Key.price, JInt(1234)),
         Member(Key.score, JNum(FALSE, 8, <<5>>)),
         Member(Key.verdict, JStr(<<118>>)),
         Member(Key.pros, JArr(<<JStr(<<112>>)>>)),
         Member(Key.cons, JArr(<<>>)),
         Member(Key.recommendation, JStr(<<114>>)),
         Member(Key.counterfeitRisk, JStr(<<108, 111, 119>>))>>)

\* an AnalysisResponse of n results named name
Response(n, name, summary, bestChoice) ==
  JObj(<<Member(Key.results, JArr([i \in 1..n |-> Result(i, name)])),
         Member(Key.summary, JStr(summary)),
         Member(Key.bestChoice, JStr(bestChoice))>>)

\* a result of the given rank and score
ScoredResult(rank, score) ==
  JObj(<<Member(Key.rank, JInt(rank)),
         Member(Key.name, JStr(<<115>>)),
         Member(Key.brand, JStr(<<98>>)),
         Member(Key.price, JInt(1234)),
         Member(Key.score, JInt(score)),
         Member(Key.verdict, JStr(<<118>>)),
         Member(Key.pros, JArr(<<>>)),
         Member(Key.cons, JArr(<<>>)),
         Member(Key.recommendation, JStr(<<114>>)),
         Member(Key.counterfeitRisk, JStr(<<108, 111, 119>>))>>)

\* responses of the shape of an AnalysisResponse whose results the remote
\* model ranked and scored as it pleased: scores 9 then 3 with ranks 1, 2;
\* scores 3 then 9; ranks 2, 1; a single result of rank 2; a score of 11;
\* a score of 0
RankedResponses ==
  {JObj(<<Member(Key.results, JArr(results)),
          Member(Key.summary, JStr(<<115>>)),
          Member(Key.bestChoice, JStr(<<98>>))>>) :
     results \in {<<ScoredResult(1, 9), ScoredResult(2, 3)>>,
                  <<ScoredResult(1, 3), ScoredResult(2, 9)>>,
                  <<ScoredResult(2, 9), ScoredResult(1, 3)>>,
                  <<ScoredResult(2, 9)>>,
                  <<ScoredResult(1, 11)>>,
                  <<ScoredResult(1, 0)>>}}

\* JSON values that are no AnalysisResponse: 42, {}, [], null, "s", [{}],
\* "a{b", {"results":[]}, {"summary":"s","bestChoice":"s"} and
\* {"results":{},"summary":1,"bestChoice":null}
OtherValues ==
  {JInt(42), JObj(<<>>), JArr(<<>>), JNull, JStr(<<115>>),
   JArr(<<JObj(<<>>)>>), JStr(<<97, 123, 98>>),
   JObj(<<Member(Key.results, JArr(<<>>))>>),
   JObj(<<Member(Key.summary, JStr(<<115>>)), Member(Key.bestChoice, JStr(<<115>>))>>),
   JObj(<<Member(Key.results, JObj(<<>>)), Member(Key.summary, JInt(1)),
          Member(Key.bestChoice, JNull)>>)}

\* the text around the serialised value: nothing; a fence tagged json; an
\* untagged fence; a fence tagged JSON on one line; prose and a fence; prose
\* that holds braces; prose after the value
Wraps == {"plain", "json", "bare", "upper", "prose", "braces", "trailer"}
FencedWraps == {"json", "bare", "upper"}
WrapPrefix(w) ==
  CASE w = "plain" -> <<>>
    [] w = "json" -> <<96, 96, 96, 106, 115, 111, 110, 10>>
    [] w = "bare" -> <<96, 96, 96, 10>>
    [] w = "upper" -> <<96, 96, 96, 74, 83, 79, 78, 32>>
    [] w = "prose" -> <<72, 101, 114, 101, 32, 105, 115, 32, 116, 104, 101, 32, 97, 110, 115, 119, 101, 114, 58, 10, 96, 96, 96, 106, 115, 111, 110, 10>>
    [] w = "braces" -> <<83, 101, 101, 32, 123, 116, 104, 105, 115, 125, 58, 32>>
    [] w = "trailer" -> <<>>
WrapSuffix(w) ==
  CASE w = "plain" -> <<>>
    [] w = "json" -> <<10, 96, 96, 96>>
    [] w = "bare" -> <<10, 96, 96, 96>>
    [] w = "upper" -> <<96, 96, 96>>
    [] w = "prose" -> <<10, 96, 96, 96>>
    [] w = "braces" -> <<>>
    [] w = "trailer" -> <<10, 68, 111, 110, 101, 46>>

\* the text the remote model wrote: the value serialised, cut after cut
\* characters when the stream was cut (and then without what would follow)
TextOfAnswer(a) ==
  IF a.cut < 0
  THEN WrapPrefix(a.wrap) \o JSONstringify(a.value) \o WrapSuffix(a.wrap)
  ELSE WrapPrefix(a.wrap) \o SubSeq(JSONstringify(a.value), 1, a.cut)

\* the content of the reply: the text as a string, bare or padded with white
\* space; as chunks of an array (a string, null, an empty string, an object
\* without text and an object with a text); as an object with a text, bare
\* or padded; or the value itself
ContentOf(a) ==
  LET text == TextOfAnswer(a)
      half == Len(text) \div 2
      obj(s) == JObj(<<Member(<<116, 121, 112, 101>>, JStr(<<116, 101, 120, 116>>)),
                       Member(<<116, 101, 120, 116>>, JStr(s))>>)
  IN  CASE a.shape = "string"  -> JStr(text)
        [] a.shape = "padded"  -> JStr(<<32, 10>> \o text \o <<10, 32>>)
        [] a.shape = "chunks"  -> JArr(<<JStr(<<32>> \o SubSeq(text, 1, half)), JNull,
                                         JStr(<<>>), JObj(<<>>),
                                         obj(SubSeq(text, half + 1, Len(text)) \o <<10>>)>>)
        [] a.shape = "textobj" -> obj(text)
        [] a.shape = "paddedobj" -> obj(<<32, 10>> \o text \o <<10, 32>>)
        [] a.shape = "value"   -> a.value

Answer(value, wrap, cut, shape) ==
  [value |-> value, wrap |-> wrap, cut |-> cut, shape |-> shape]

\* the answers of the initial states: every response in every wrapping;
\* the responses with a plain summary cut at every length, bare or after an
\* opening fence, and those with a name that is an opening brace or holds a
\* fence; the values that are no response and the responses whose results
\* are ranked at will; the shapes of content
\* other than a string; and contents that are no text at all
IsAnswer(a) ==
  \/ \E n \in 0..MaxResults : \E name \in Texts : \E summary \in Texts :
     \E best \in {<<98>>} \cup FenceTexts : \E w \in Wraps :
       /\ n = 0 => name = <<115>>
       /\ a = Answer(Response(n, name, summary, best), w, -1, "string")
  \/ \E n \in 0..MaxResults : \E summary \in {<<115>>, <<120, 125, 121>>} :
     \E w \in {"plain", "json"} :
     \E cut \in 0..(Len(JSONstringify(Response(n, <<115>>, summary, <<98>>))) - 1) :
       a = Answer(Response(n, <<115>>, summary, <<98>>), w, cut, "string")
  \/ \E n \in 1..MaxResults : \E name \in {<<123>>} \cup FenceTexts :
     \E cut \in 0..(Len(JSONstringify(Response(n, name, <<115>>, <<98>>))) - 1) :
       a = Answer(Response(n, name, <<115>>, <<98>>), "plain", cut, "string")
  \/ \E v \in OtherValues \cup RankedResponses : \E w \in {"plain", "json"} :
       a = Answer(v, w, -1, "string")
  \/ \E n \in 0..MaxResults : \E w \in {"plain", "json"} :
     \E shape \in {"padded", "chunks", "textobj", "paddedobj"} :
       a = Answer(Response(n, <<115>>, <<115>>, <<98>>), w, -1, shape)
  \/ \E v \in OtherValues \cup {JUndefined, JBool(TRUE)} :
       a = Answer(v, "plain", -1, "value")

(***************************************************************************)
(* The recovery as a state machine: the transport's reply has been decoded *)
(* and its content is normalised, repaired and parsed; when that parse     *)
(* throws, the catch block tries the fallback match.                       *)
(***************************************************************************)
\* lines 207-211: normalizeContent, repairJson, JSON.parse
ParseCleaned ==
  /\ pc = "fetched"
  /\ LET normalized == normalizeContent(content)
         parsed     == JSONparse(repairJson(normalized))
     IN  /\ raw' = normalized
         /\ IF parsed.ok
            THEN outcome' = Returned(parsed.v) /\ pc' = "done"
            ELSE outcome' = outcome /\ pc' = "catch"
  /\ UNCHANGED <<products, groups, limited, requests, resp, answer, content, replies>>
  /\ UNCHANGED outerVars

\* lines 212-222: the catch block
FallbackExtract_onRepaired ==
  /\ pc = "catch"
  /\ LET jsonMatch == matchResults(repairJson(raw))
         parsed    == IF jsonMatch.found THEN JSONparse(repairJson(jsonMatch.text))
                      ELSE [ok |-> FALSE, v |-> JNull]
     IN  outcome' = IF parsed.ok THEN Returned(parsed.v) ELSE Thrown(ParseErrorMessage)
  /\ pc' = "done"
  /\ UNCHANGED <<products, groups, limited, requests, resp, answer, content, raw, replies>>
  /\ UNCHANGED outerVars
FallbackExtract_silent ==
  /\ pc = "catch"
  /\ LET jsonMatch == matchResults(raw)
         parsed    == IF jsonMatch.found THEN JSONparse(repairJson(jsonMatch.text))
                      ELSE [ok |-> FALSE, v |-> JNull]
     IN  outcome' = IF parsed.ok THEN Returned(parsed.v) ELSE Returned(JUndefined)
  /\ pc' = "done"
  /\ UNCHANGED <<products, groups, limited, requests, resp, answer, content, raw, replies>>
  /\ UNCHANGED outerVars
FallbackExtract ==
  /\ pc = "catch"
  /\ LET jsonMatch == matchResults(raw)
         parsed    == IF jsonMatch.found THEN JSONparse(repairJson(jsonMatch.text))
                      ELSE [ok |-> FALSE, v |-> JNull]
     IN  outcome' = IF parsed.ok THEN Returned(parsed.v) ELSE Thrown(ParseErrorMessage)
  /\ pc' = "done"
  /\ UNCHANGED <<products, groups, limited, requests, resp, answer, content, raw, replies>>
  /\ UNCHANGED outerVars

InitRecover ==
  /\ products = <<>>
  /\ groups = <<>>
  /\ limited = <<>>
  /\ requests = <<Request(limited)>>
  /\ resp = OkResp
  /\ IsAnswer(answer)
  /\ content = ContentOf(answer)
  /\ raw = <<>>
  /\ outcome = NoOutcome
  /\ replies = <<>>
  /\ pc = "fetched"
  /\ OuterIdle

NextRecover == ParseCleaned \/ FallbackExtract

SpecRecover == InitRecover /\ [][NextRecover]_vars

(***************************************************************************)
(* What the claims about the selection speak of, stated on the input list  *)
(* and not by the loops of the code.                                       *)
(***************************************************************************)
Selected == pc = "truncated"

\* the positions of the offers that have a price
PricedIdx == {i \in 1..Len(products) : products[i].price > 0}
\* the group of the offer at each position
KeyFn == [i \in 1..Len(products) |-> groupKey(products[i])]
\* the groups of the input, and the members of a group
KeysOf(key) == {key[i] : i \in PricedIdx}
MembersOf(key, k) == {i \in PricedIdx : key[i] = k}
\* the position in the input of an offer of the output
PosOf(p) == CHOOSE i \in 1..Len(products) : products[i] = p

\* the k-th smallest price among the offers at the positions I
KthPrice(I, k) ==
  CHOOSE x \in {products[i].price : i \in I} :
    /\ Cardinality({i \in I : products[i].price < x}) < k
    /\ k <= Cardinality({i \in I : products[i].price <= x})
\* twice the median: the middle price, or the mean of the two middle prices
MedianTwice(I) ==
  LET n == Cardinality(I)
  IN  IF n % 2 = 1 THEN 2 * KthPrice(I, (n + 1) \div 2)
      ELSE KthPrice(I, n \div 2) + KthPrice(I, n \div 2 + 1)
\* twice the distance of the price at position i to the median, given twice
DistTwice(i, med2) == Abs(2 * products[i].price - med2)

AllPriced == \A i \in 1..Len(products) : products[i].price > 0
AllDistinctGroups ==
  LET key == KeyFn
  IN  \A i, j \in 1..Len(products) : key[i] = key[j] => i = j

C2_CapOffersOfDistinctGroups ==
  LET key == KeyFn
  IN  (Selected /\ Cardinality(KeysOf(key)) > MAX_MANUFACTURERS) =>
        /\ Len(limited) = MAX_MANUFACTURERS
        /\ \A i, j \in 1..Len(limited) :
             groupKey(limited[i]) = groupKey(limited[j]) => i = j
        /\ \A i \in 1..Len(limited) :
             LET I    == MembersOf(key, groupKey(limited[i]))
                 med2 == MedianTwice(I)
                 pos  == PosOf(limited[i])
             IN  /\ pos \in I
                 /\ \A j \in I : DistTwice(pos, med2) <= DistTwice(j, med2)

C2_Witness ==
  LET key == KeyFn
  IN  /\ Selected
      /\ Cardinality(KeysOf(key)) > MAX_MANUFACTURERS
      /\ Cardinality(PricedIdx) > Cardinality(KeysOf(key))
      /\ PricedIdx # 1..Len(products)
      /\ Len(limited) = MAX_MANUFACTURERS
      /\ \E i \in 1..Len(limited) : PosOf(limited[i]) > i

\* C3: the offer chosen for a group is a member at minimum distance to the
\* group's median, and the first such member of the input.
C3_ClosestToMedianFirstWins ==
  LET key == KeyFn
  IN  Selected =>
        \A i \in 1..Len(limited) :
          LET I    == MembersOf(key, groupKey(limited[i]))
              med2 == MedianTwice(I)
              pos  == PosOf(limited[i])
          IN  /\ pos \in I
              /\ \A j \in I : DistTwice(pos, med2) <= DistTwice(j, med2)
              /\ \A j \in I : j < pos => DistTwice(pos, med2) < DistTwice(j, med2)

\* a group whose chosen member is neither its first nor its last one and is
\* tied with a later member of another price
C3_Witness ==
  LET key == KeyFn
  IN  /\ Selected
      /\ \E i \in 1..Len(limited) :
           LET I    == MembersOf(key, groupKey(limited[i]))
               med2 == MedianTwice(I)
               pos  == PosOf(limited[i])
           IN  /\ \E j \in I : j < pos
               /\ \E j \in I : /\ j > pos
                               /\ DistTwice(j, med2) = DistTwice(pos, med2)
                               /\ products[j].price # products[pos].price

\* the members of the group of an offer, when the group has exactly the
\* prices 100, 200, 300 and 1000, and the empty set otherwise
OutlierMembers(p) ==
  LET I == MembersOf(KeyFn, groupKey(p))
  IN  IF Cardinality(I) = 4 /\ {products[j].price : j \in I} = OutlierPrices
      THEN I ELSE {}
PriceIdx(I, price) == CHOOSE j \in I : products[j].price = price

\* C4 as claimed: the offer chosen for a group with the prices 100, 200, 300
\* and 1000 has the price 200, in whatever order the four stand.
C4_OutlierGroupPicks200 ==
  Selected =>
    \A i \in 1..Len(limited) :
      OutlierMembers(limited[i]) # {} => limited[i].price = 200

\* C4 as amended: 200 and 300 are equally far from the median 250, and the
\* offer chosen is the one of these two that stands first in the input.
C4_OutlierGroupPicksFirstOf200And300 ==
  Selected =>
    \A i \in 1..Len(limited) :
      LET I == OutlierMembers(limited[i])
      IN  I # {} =>
            limited[i].price =
              (IF PriceIdx(I, 200) < PriceIdx(I, 300) THEN 200 ELSE 300)

C4_Witness ==
  /\ Selected
  /\ \E i \in 1..Len(limited) :
       LET I == OutlierMembers(limited[i])
       IN  /\ I # {}
           /\ limited[i].price = 200
           /\ PriceIdx(I, 1000) < PriceIdx(I, 200)
           /\ PriceIdx(I, 200) < PriceIdx(I, 300)

\* the manufacturer as a string: a missing one is the empty string
MfrText(p) == IF p.manufacturer = Undefined THEN <<>> ELSE p.manufacturer
\* equal after trimming and ignoring case
SameManufacturer(p, q) ==
  toLowerCase(trim(MfrText(p))) = toLowerCase(trim(MfrText(q)))

\* C5: the output has at most MAX_MANUFACTURERS offers and no two offers
\* whose manufacturers are equal after trimming and ignoring case.
C5_AtMostOnePerManufacturer ==
  Selected =>
    /\ Len(limited) <= MAX_MANUFACTURERS
    /\ \A i, j \in 1..Len(limited) :
         SameManufacturer(limited[i], limited[j]) => i = j

\* C6: the output holds, in the order in which the groups first appear in
\* the input, one offer of each of the first MAX_MANUFACTURERS groups.
C6_OrderOfFirstAppearance ==
  LET key    == KeyFn
      \* the positions at which a group appears for the first time
      firsts == {j \in PricedIdx : \A l \in PricedIdx : l < j => key[l] # key[j]}
  IN  Selected =>
        /\ Len(limited) = (IF Cardinality(firsts) < MAX_MANUFACTURERS
                           THEN Cardinality(firsts) ELSE MAX_MANUFACTURERS)
        /\ \A i \in 1..Len(limited) :
             \E f \in firsts :
               /\ key[f] = key[PosOf(limited[i])]
               /\ PosOf(limited[i]) \in PricedIdx
               /\ Cardinality({j \in firsts : j <= f}) = i

\* 15 offers of 12 manufacturers, all priced 100
C6_Witness ==
  /\ Selected
  /\ Len(products) = 15
  /\ Cardinality(KeysOf(KeyFn)) = 12
  /\ \A i \in 1..Len(products) : products[i].price = 100
  /\ Len(limited) = 10
  /\ \E i \in 1..Len(limited) : PosOf(limited[i]) > i

\* C7: no offer of the output is unpriced, the output is what the priced
\* offers alone give, nothing is thrown, and no offers give no offers.
C7_UnpricedOffersDropped ==
  /\ pc # "threw"
  /\ Selected =>
       /\ \A i \in 1..Len(limited) : limited[i].price > 0
       /\ limited = truncateProducts(SelectSeq(products, LAMBDA p : p.price > 0))
       /\ products = <<>> => limited = <<>>

\* an unpriced offer that would have moved the median of its group
C7_Witness ==
  /\ Selected
  /\ PricedIdx # 1..Len(products)
  /\ Len(limited) = Len(resultOf(groupsOf(products, <<>>)))
  /\ \E i \in 1..Len(limited) :
       /\ resultOf(groupsOf(products, <<>>))[i].price > 0
       /\ resultOf(groupsOf(products, <<>>))[i] # limited[i]

\* an offer without a manufacturer: missing, empty, or empty once trimmed
NoManufacturer(p) == trim(MfrText(p)) = <<>>

\* C8: the offers without a manufacturer are all in one group, which is
\* labelled unknown and holds no offer that has a manufacturer.
C8_UnknownGroupOfItsOwn ==
  Selected =>
    \A a, b \in 1..Len(groups) :
      \A i \in 1..Len(groups[a].offers) : \A j \in 1..Len(groups[b].offers) :
        LET p == groups[a].offers[i]
            q == groups[b].offers[j]
        IN  NoManufacturer(p) =>
              /\ groups[a].key = toLowerCase(UnknownLabel)
              /\ NoManufacturer(q) => a = b
              /\ ~NoManufacturer(q) => a # b

(***************************************************************************)
(* The whole of a request: the listener of ANALYZE_PRODUCTS runs           *)
(* analyzeProducts (selection, one call of the transport, status test,     *)
(* decoding, recovery) and answers the message with sendResponse.          *)
(***************************************************************************)
\* what the engine says when fetch rejects, when resp.json() cannot decode
\* the body, and when the decoded body is null
NetworkErrorMessage == <<70, 97, 105, 108, 101, 100, 32, 116, 111, 32, 102, 101, 116, 99, 104>>
DecodeErrorMessage == <<85, 110, 101, 120, 112, 101, 99, 116, 101, 100, 32, 116, 111, 107, 101, 110>>
NullDataMessage == <<67, 97, 110, 110, 111, 116, 32, 114, 101, 97, 100, 32, 112, 114, 111, 112, 101, 114, 116, 105, 101, 115, 32, 111, 102, 32, 110, 117, 108, 108>>

\* `DeepSeek API error ${resp.status}: ${errText}`
TransportErrorMessage_noBody(status, errText) ==
  <<68, 101, 101, 112, 83, 101, 101, 107, 32, 65, 80, 73, 32, 101, 114, 114, 111, 114, 32>>
    \o natDigits(status)
TransportErrorMessage(status, errText) ==
  <<68, 101, 101, 112, 83, 101, 101, 107, 32, 65, 80, 73, 32, 101, 114, 114, 111, 114, 32>>
    \o natDigits(status) \o <<58, 32>> \o errText

\* the statuses and bodies of the replies without success: an empty body,
\* Unauthorized, and a body that is itself a well-formed response
FailureStatuses == {401, 500}
FailureBodies ==
  {<<>>, <<85, 110, 97, 117, 116, 104, 111, 114, 105, 122, 101, 100>>,
   JSONstringify(Response(0, <<115>>, <<115>>, <<98>>))}

\* how the transport may settle a call
Resps ==
  {OkResp,
   [kind |-> "rejected", status |-> 0, body |-> <<>>],
   [kind |-> "undecodable", status |-> 200, body |-> <<60, 104, 116, 109, 108, 62>>],
   [kind |-> "null", status |-> 200, body |-> <<110, 117, 108, 108>>]}
    \cup {[kind |-> "status", status |-> s, body |-> b] :
            s \in FailureStatuses, b \in FailureBodies}

\* the answers of a decoded body: a response bare, fenced or after prose
\* with braces; a response cut early or just before its end; values that
\* are no response; a content that is missing or a number
PlainResponses == {Response(n, <<115>>, <<115>>, <<98>>) : n \in 0..MaxResults}
SmallAnswers ==
  {Answer(v, w, -1, "string") : v \in PlainResponses, w \in {"plain", "json", "braces"}}
    \cup {Answer(v, "plain", Len(JSONstringify(v)) - back, "string") :
            v \in PlainResponses, back \in {3, 20}}
    \cup {Answer(v, "plain", -1, "string") : v \in OtherValues}
    \cup {Answer(v, "plain", -1, "value") : v \in {JUndefined, JInt(42)}}

\* an offer of a catalogue page: no supplier and no date; a volume when the
\* description names one, and a price per litre when it has a price too
CatalogOffer(m, partNumber, price, volume) ==
  LET base == [manufacturer |-> m, partNumber |-> partNumber,
               description |-> <<79, 105, 108>>, supplier |-> <<>>,
               price |-> price, deliveryDate |-> <<>>]
  IN  IF volume = 0 THEN base
      ELSE IF price > 0
      THEN base @@ [volume |-> volume,
                    pricePerLiter |-> [num |-> price * 1000, den |-> volume]]
      ELSE base @@ [volume |-> volume]
\* an offer of a price page: a supplier and a delivery date
PriceOffer(m, price, i) ==
  Offer(m, price, i) @@ [partNumber |-> <<52, 48, 53>>, description |-> <<>>,
                         deliveryDate |-> <<48, 52, 46, 48, 51, 46, 50, 48, 50, 54>>]
\* two offers of a catalogue page or of a price page, with and without a
\* price, a volume, a manufacturer
PageLists ==
  {<<CatalogOffer(<<66, 111>>, <<49>>, 100, 500), CatalogOffer(<<76, 117>>, <<50>>, 0, 1000)>>,
   <<CatalogOffer(<<66, 111>>, <<49>>, 300, 0), CatalogOffer(<<76, 117>>, <<50>>, 100, 3000)>>,
   <<PriceOffer(<<66, 111>>, 300, 1), PriceOffer(<<>>, 100, 2)>>,
   <<PriceOffer(<<66, 111>>, 0, 1), CatalogOffer(<<76, 117>>, <<50>>, 0, 0)>>}

\* the offers of the message: none or one, or two offers of a page
IsSmallOfferList(list) ==
  \/ \E n \in 0..1 : \E f \in [1..n -> SmallMfrs \X SmallPrices] : list = SmallList(n, f)
  \/ list \in PageLists

InitAnalyze ==
  /\ IsSmallOfferList(products)
  /\ groups = <<>>
  /\ limited = <<>>
  /\ requests = <<>>
  /\ resp = NoResp
  /\ answer = NoAnswer
  /\ content = JUndefined
  /\ raw = <<>>
  /\ outcome = NoOutcome
  /\ replies = <<>>
  /\ pc = "start"
  /\ OuterIdle

\* lines 184-199: await fetch(...); a rejection of fetch rejects the promise
\* of analyzeProducts
Fetch ==
  /\ pc = "truncated"
  /\ requests' = Append(requests, Request(limited))
  /\ \E r \in Resps :
       /\ resp' = r
       /\ IF r.kind = "rejected"
          THEN outcome' = Thrown(NetworkErrorMessage) /\ pc' = "rejected"
          ELSE outcome' = outcome /\ pc' = "responded"
  /\ UNCHANGED <<products, groups, limited, answer, content, raw, replies>>
  /\ UNCHANGED outerVars

\* lines 201-204: if (!resp.ok) throw
CheckStatus ==
  /\ pc = "responded"
  /\ IF resp.kind = "status"
     THEN outcome' = Thrown(TransportErrorMessage(resp.status, resp.body))
          /\ pc' = "rejected"
     ELSE outcome' = outcome /\ pc' = "decoding"
  /\ UNCHANGED <<products, groups, limited, requests, resp, answer, content, raw, replies>>
  /\ UNCHANGED outerVars

\* lines 206-207: data = await resp.json(); data.choices?.[0]?.message?.content
DecodeBody ==
  /\ pc = "decoding"
  /\ \/ /\ resp.kind = "undecodable"
        /\ outcome' = Thrown(DecodeErrorMessage)
        /\ pc' = "rejected"
        /\ UNCHANGED <<answer, content>>
     \/ /\ resp.kind = "null"
        /\ outcome' = Thrown(NullDataMessage)
        /\ pc' = "rejected"
        /\ UNCHANGED <<answer, content>>
     \/ /\ resp.kind = "ok"
        /\ \E a \in SmallAnswers :
             /\ answer' = a
             /\ content' = ContentOf(a)
        /\ outcome' = outcome
        /\ pc' = "fetched"
  /\ UNCHANGED <<products, groups, limited, requests, resp, raw, replies>>
  /\ UNCHANGED outerVars

\* a listener without the .catch: only a fulfilled promise is answered
Respond_thenOnly ==
  /\ pc = "done" /\ outcome.kind = "ok"
  /\ replies' = Append(replies, [success |-> TRUE, data |-> outcome.value])
  /\ pc' = "replied"
  /\ UNCHANGED <<products, groups, limited, requests, resp, answer, content, raw, outcome>>
  /\ UNCHANGED outerVars
\* lines 229-231: .then(sendResponse({success: true, data})) and
\* .catch(sendResponse({success: false, error: error.message}))
Respond ==
  /\ pc \in {"done", "rejected"}
  /\ replies' = Append(replies,
                       IF outcome.kind = "ok"
                       THEN [success |-> TRUE, data |-> outcome.value]
                       ELSE [success |-> FALSE, error |-> outcome.message])
  /\ pc' = "replied"
  /\ UNCHANGED <<products, groups, limited, requests, resp, answer, content, raw, outcome>>
  /\ UNCHANGED outerVars

NextAnalyze ==
  \/ Truncate
  \/ Fetch
  \/ CheckStatus
  \/ DecodeBody
  \/ ParseCleaned
  \/ FallbackExtract
  \/ Respond

SpecAnalyze == InitAnalyze /\ [][NextAnalyze]_vars

\* The event loop runs the continuation of every promise that settles, and
\* the transport settles every call (it fulfils or rejects; the code sets
\* no timeout of its own): a step that can be taken is taken.  Weak
\* fairness of Fetch, ParseCleaned and FallbackExtract is written out with
\* what enables them, their first conjunct: the rest of each is defined for
\* every state.
SpecAnalyzeFair ==
  /\ SpecAnalyze
  /\ WF_vars(Truncate)
  /\ (<>[](pc = "truncated") => []<><<Fetch>>_vars)
  /\ WF_vars(CheckStatus)
  /\ WF_vars(DecodeBody)
  /\ (<>[](pc = "fetched") => []<><<ParseCleaned>>_vars)
  /\ (<>[](pc = "catch") => []<><<FallbackExtract>>_vars)
  /\ WF_vars(Respond)

(***************************************************************************)
(* Two messages in the worker.  The listener starts analyzeProducts for    *)
(* each; an invocation runs up to its next await and the event loop then   *)
(* continues either of them.  The locals of the invocations (limited,      *)
(* resp, content, raw, the promise's outcome) live in their own frames;    *)
(* background.ts has nothing else that changes.  Each step is the step of  *)
(* the one invocation above, taken on a frame.                             *)
(***************************************************************************)
NoRequest == [offers |-> <<>>, userPrompt |-> <<>>, body |-> <<>>]
\* the frame of the invocation for the message number id with the offers list
Frame(id, list) ==
  [id |-> id, products |-> list, limited |-> <<>>, request |-> NoRequest,
   resp |-> NoResp, answer |-> NoAnswer, content |-> JUndefined, raw |-> <<>>,
   outcome |-> NoOutcome, replies |-> <<>>, pc |-> "start"]

\* line 166
truncateStep(f) ==
  [f EXCEPT !.limited = truncateProducts(f.products), !.pc = "truncated"]
\* the request takes in the offers of the invocations that sent before
sendStep_carryOver(f) ==
  LET before == {k \in DOMAIN calls : calls[k].id # f.id /\ calls[k].request # NoRequest}
      earlier == IF before = {} THEN <<>> ELSE calls[CHOOSE k \in before : TRUE].limited
  IN  [f EXCEPT !.request = [Request(earlier \o f.limited) EXCEPT !.offers = f.limited],
                !.pc = "calling"]
\* lines 168-199: the prompt is built and fetch is called
sendStep(f) == [f EXCEPT !.request = Request(f.limited), !.pc = "calling"]
\* line 184: the await of fetch ends with the reply r
settleStep(f, r) ==
  [f EXCEPT !.resp = r,
            !.outcome = IF r.kind = "rejected" THEN Thrown(NetworkErrorMessage) ELSE @,
            !.pc = IF r.kind = "rejected" THEN "rejected" ELSE "responded"]
\* lines 201-204
statusStep(f) ==
  IF f.resp.kind = "status"
  THEN [f EXCEPT !.outcome = Thrown(TransportErrorMessage(f.resp.status, f.resp.body)),
                 !.pc = "rejected"]
  ELSE [f EXCEPT !.pc = "decoding"]
\* lines 206-207, the body holding the answer a
decodeStep(f, a) ==
  CASE f.resp.kind = "undecodable" ->
         [f EXCEPT !.outcome = Thrown(DecodeErrorMessage), !.pc = "rejected"]
    [] f.resp.kind = "null" ->
         [f EXCEPT !.outcome = Thrown(NullDataMessage), !.pc = "rejected"]
    [] OTHER ->
         [f EXCEPT !.answer = a, !.content = ContentOf(a), !.pc = "fetched"]
\* lines 207-211
parseStep(f) ==
  LET normalized == normalizeContent(f.content)
      parsed     == JSONparse(repairJson(normalized))
  IN  IF parsed.ok
      THEN [f EXCEPT !.raw = normalized, !.outcome = Returned(parsed.v), !.pc = "done"]
      ELSE [f EXCEPT !.raw = normalized, !.pc = "catch"]
\* raw is one variable of the module: the catch block reads what the
\* invocation that normalized last has written
fallbackStep_moduleRaw(f) ==
  LET others    == {k \in DOMAIN calls :
                      calls[k].id # f.id /\ calls[k].pc \in {"catch", "done", "replied"}}
      read      == IF others = {} THEN f.raw ELSE calls[CHOOSE k \in others : TRUE].raw
      jsonMatch == matchResults(read)
      parsed    == IF jsonMatch.found THEN JSONparse(repairJson(jsonMatch.text))
                   ELSE [ok |-> FALSE, v |-> JNull]
  IN  [f EXCEPT !.outcome = IF parsed.ok THEN Returned(parsed.v)
                            ELSE Thrown(ParseErrorMessage),
                !.pc = "done"]
\* lines 212-222
fallbackStep(f) ==
  LET jsonMatch == matchResults(f.raw)
      parsed    == IF jsonMatch.found THEN JSONparse(repairJson(jsonMatch.text))
                   ELSE [ok |-> FALSE, v |-> JNull]
  IN  [f EXCEPT !.outcome = IF parsed.ok THEN Returned(parsed.v)
                            ELSE Thrown(ParseErrorMessage),
                !.pc = "done"]
\* lines 229-231
respondStep(f) ==
  [f EXCEPT !.replies = Append(@, IF f.outcome.kind = "ok"
                                  THEN [success |-> TRUE, data |-> f.outcome.value]
                                  ELSE [success |-> FALSE, error |-> f.outcome.message]),
            !.pc = "replied"]

\* the offers of the two messages, how the transport settles, and the
\* answers: a response as it stands, and one after prose with braces, which
\* neither parse recovers
PairLists ==
  {<<Offer(<<66, 111>>, 100, 1)>>,
   <<PriceOffer(<<66, 111>>, 300, 1), PriceOffer(<<>>, 100, 2)>>,
   <<PriceOffer(<<66, 111>>, 0, 1), CatalogOffer(<<76, 117>>, <<50>>, 0, 0)>>}
PairResps ==
  {OkResp,
   [kind |-> "rejected", status |-> 0, body |-> <<>>],
   [kind |-> "status", status |-> 500, body |-> <<>>],
   [kind |-> "null", status |-> 200, body |-> <<110, 117, 108, 108>>]}
PairAnswers ==
  {Answer(Response(1, <<115>>, <<115>>, <<98>>), w, -1, "string") : w \in {"plain", "braces"}}

InitPair ==
  /\ CallIdle
  /\ now = 0
  /\ PopupIdle
  /\ PageIdle
  /\ \E first, second \in PairLists : calls = <<Frame(1, first), Frame(2, second)>>

\* the event loop continues the invocation i
PairTruncate(i) ==
  /\ calls[i].pc = "start"
  /\ calls' = [calls EXCEPT ![i] = truncateStep(@)]
  /\ UNCHANGED <<callVars, now, popupVars, pageVars>>
PairSend(i) ==
  /\ calls[i].pc = "truncated"
  /\ calls' = [calls EXCEPT ![i] = sendStep(@)]
  /\ UNCHANGED <<callVars, now, popupVars, pageVars>>
PairSettle(i) ==
  /\ calls[i].pc = "calling"
  /\ \E r \in PairResps : calls' = [calls EXCEPT ![i] = settleStep(@, r)]
  /\ UNCHANGED <<callVars, now, popupVars, pageVars>>
PairCheckStatus(i) ==
  /\ calls[i].pc = "responded"
  /\ calls' = [calls EXCEPT ![i] = statusStep(@)]
  /\ UNCHANGED <<callVars, now, popupVars, pageVars>>
PairDecodeBody(i) ==
  /\ calls[i].pc = "decoding"
  /\ \E a \in PairAnswers : calls' = [calls EXCEPT ![i] = decodeStep(@, a)]
  /\ UNCHANGED <<callVars, now, popupVars, pageVars>>
PairParseCleaned(i) ==
  /\ calls[i].pc = "fetched"
  /\ calls' = [calls EXCEPT ![i] = parseStep(@)]
  /\ UNCHANGED <<callVars, now, popupVars, pageVars>>
PairFallbackExtract(i) ==
  /\ calls[i].pc = "catch"
  /\ calls' = [calls EXCEPT ![i] = fallbackStep(@)]
  /\ UNCHANGED <<callVars, now, popupVars, pageVars>>
PairRespond(i) ==
  /\ calls[i].pc \in {"done", "rejected"}
  /\ calls' = [calls EXCEPT ![i] = respondStep(@)]
  /\ UNCHANGED <<callVars, now, popupVars, pageVars>>

NextPair ==
  \E i \in 1..2 :
    \/ PairTruncate(i)
    \/ PairSend(i)
    \/ PairSettle(i)
    \/ PairCheckStatus(i)
    \/ PairDecodeBody(i)
    \/ PairParseCleaned(i)
    \/ PairFallbackExtract(i)
    \/ PairRespond(i)

SpecPair == InitPair /\ [][NextPair]_vars

(***************************************************************************)
(* The storage of the popup: saveAnalysis, deleteHistoryItem and           *)
(* clearHistory, each run to its end before the next begins, and the       *)
(* popup opened again on a page.  An analysis is told from the others by   *)
(* the number of the save that stored it; a page by its URL.               *)
(***************************************************************************)
\* history.slice(0, 50)
HistoryLimit == 50
\* saves, and ticks of the clock, that are followed
MaxSaves == 2
MaxTicks == 1

Analysis(k) == [request |-> k]
Urls == {"exist.ru/Price/1", "exist.ru/Catalog/Goods/2"}
\* the offers read on a page
OffersOf(url) ==
  IF url = "exist.ru/Price/1" THEN <<PriceOffer(<<66, 111>>, 300, 1)>>
  ELSE <<CatalogOffer(<<76, 117>>, <<50>>, 100, 3000)>>

\* lines 48-55: the new entry; its id is the time and a random text
newItem(result, list, url, t, r) ==
  [id |-> <<t, r>>, timestamp |-> t, url |-> url, result |-> result, products |-> list]
\* the new entry is pushed to the end of the list
trimmedHistory_pushed(history, item) == slice0(Append(history, item), HistoryLimit)
\* lines 58-59: history.unshift(newItem); history.slice(0, 50)
trimmedHistory(history, item) == slice0(<<item>> \o history, HistoryLimit)
\* lines 62-67
lastOf(result, list, url, t) ==
  [timestamp |-> t, url |-> url, result |-> result, products |-> list]
\* line 95: history.filter(item => item.id !== id)
filtered(history, id) == SelectSeq(history, LAMBDA item : item.id # id)

\* what the popup shows: the screen, the two buttons, the history list drawn
Dom(screen) ==
  [screen |-> screen, selectDisabled |-> FALSE, analyzeDisabled |-> TRUE,
   historyItems |-> <<>>]

\* a history of n entries that n earlier saves have left, the newest first
EarlierHistory(n) ==
  [k \in 1..n |->
     newItem(Analysis(0), OffersOf("exist.ru/Price/1"), "exist.ru/Price/1",
             HistoryLimit - k, 0 - k)]

InitStore ==
  /\ CallIdle
  /\ calls = <<>>
  /\ PageIdle
  /\ now = HistoryLimit
  /\ \E n \in {0, 1, HistoryLimit - 1, HistoryLimit} :
       /\ analysisHistory = EarlierHistory(n)
       /\ lastAnalysis =
            IF n = 0 THEN Null
            ELSE lastOf(Analysis(0), OffersOf("exist.ru/Price/1"), "exist.ru/Price/1",
                        HistoryLimit - 1)
  /\ nonce = 0
  /\ currentProducts = <<>>
  /\ currentAnalysis = Null
  /\ dom = [screen |-> "closed"]
  /\ pending = NothingPending
  /\ sent = <<>>
  /\ currentTabId = 0
  /\ apiKey = ""
  /\ tab = ""

\* lines 44-73, for the analysis result of the offers of the page url
SaveAnalysis(result, url) ==
  /\ nonce < MaxSaves
  /\ analysisHistory' =
       trimmedHistory(analysisHistory, newItem(result, OffersOf(url), url, now, nonce))
  /\ lastAnalysis' = lastOf(result, OffersOf(url), url, now)
  /\ nonce' = nonce + 1
  /\ UNCHANGED <<currentProducts, currentAnalysis, dom, pending, sent, now, currentTabId, apiKey, tab>>
  /\ UNCHANGED <<callVars, calls, pageVars>>

\* lines 91-99
DeleteHistoryItem(id) ==
  /\ analysisHistory' = filtered(analysisHistory, id)
  /\ UNCHANGED <<lastAnalysis, nonce, currentProducts, currentAnalysis, dom, pending,
                 sent, now, currentTabId, apiKey, tab>>
  /\ UNCHANGED <<callVars, calls, pageVars>>

\* lines 101-105
ClearHistory ==
  /\ analysisHistory' = <<>>
  /\ lastAnalysis' = Null
  /\ UNCHANGED <<nonce, currentProducts, currentAnalysis, dom, pending, sent, now, currentTabId, apiKey, tab>>
  /\ UNCHANGED <<callVars, calls, pageVars>>

\* the pages with a list of offers are those of Urls
TabUrls == Urls \cup {"exist.ru/Help"}

\* lines 717-730, the awaits of the handler taken in one step: the popup is
\* opened on the tab of the page url
OpenPopup(url) ==
  /\ dom.screen = "closed"
  /\ tab' = url
  /\ IF lastAnalysis # Null /\ lastAnalysis.url = url
     THEN /\ currentAnalysis' = lastAnalysis.result
          /\ currentProducts' = lastAnalysis.products
          /\ dom' = Dom("results")
          /\ UNCHANGED pending
     ELSE /\ dom' = Dom("main")
          /\ pending' = [pending EXCEPT !.check = "awaiting"]
          /\ UNCHANGED <<currentAnalysis, currentProducts>>
  /\ UNCHANGED <<analysisHistory, lastAnalysis, nonce, sent, now, currentTabId, apiKey>>
  /\ UNCHANGED <<callVars, calls, pageVars>>

\* the popup is closed: its document and its module are gone, and the
\* handlers that waited with them
ClosePopup ==
  /\ dom.screen # "closed"
  /\ dom' = [screen |-> "closed"]
  /\ currentProducts' = <<>>
  /\ currentAnalysis' = Null
  /\ currentTabId' = 0
  /\ tab' = ""
  /\ pending' = NothingPending
  /\ UNCHANGED <<analysisHistory, lastAnalysis, nonce, sent, now, apiKey>>
  /\ UNCHANGED <<callVars, calls, pageVars>>

\* lines 529-553, after await getCurrentTab()
CheckSettles ==
  /\ pending.check = "awaiting"
  /\ pending' = [pending EXCEPT !.check = "idle"]
  /\ currentTabId' = 1
  /\ dom' = [dom EXCEPT !.selectDisabled = tab \notin Urls]
  /\ UNCHANGED <<analysisHistory, lastAnalysis, nonce, currentProducts, currentAnalysis,
                 sent, now, apiKey, tab>>
  /\ UNCHANGED <<callVars, calls, pageVars>>

\* time passes
StoreTick ==
  /\ now < HistoryLimit + MaxTicks
  /\ now' = now + 1
  /\ UNCHANGED <<popupVars, callVars, calls, pageVars>>

\* the ids a delete is asked for, on a history of at most three entries
\* and on one that is full or one entry short of it: those of the two
\* newest entries and one that no entry has
DeleteIds ==
  IF Len(analysisHistory) \in (0..3) \cup {HistoryLimit - 1, HistoryLimit}
  THEN {analysisHistory[k].id : k \in {1, 2} \cap DOMAIN analysisHistory}
         \cup {<<0, 0 - 1>>}
  ELSE {}

NextStore ==
  \/ \E url \in Urls : SaveAnalysis(Analysis(nonce + 1), url)
  \/ \E id \in DeleteIds : DeleteHistoryItem(id)
  \/ ClearHistory
  \/ \E url \in TabUrls : OpenPopup(url)
  \/ ClosePopup
  \/ CheckSettles
  \/ StoreTick

SpecStore == InitStore /\ [][NextStore]_vars

(***************************************************************************)
(* The popup open on a tab: selectProducts, analyzeProducts, showHistory,  *)
(* checkCurrentPage and the buttons that lead back to the main screen,     *)
(* each handler a step from one await to the next.  Of each handler one    *)
(* invocation at a time is followed.  The buttons of a screen are clicked  *)
(* while that screen is shown; btn-select, btn-analyze, btn-history and    *)
(* btn-settings are taken to be on the main screen.  The content script    *)
(* and the worker are what answers their messages.  The popup is followed  *)
(* from when it opens until it is closed.                                  *)
(***************************************************************************)
\* ANALYZE_PRODUCTS messages that are followed
MaxMessages == 1

\* what GET_PRODUCTS is answered with: no offers, offers without a price,
\* offers with one
PopupLists ==
  {<<>>, <<PriceOffer(<<66, 111>>, 0, 1)>>} \cup {OffersOf(url) : url \in Urls}
SelectResponses ==
  {[kind |-> "rejected"], [kind |-> "undefined"]}
    \cup {[kind |-> "products", products |-> list] : list \in PopupLists}

InitPopup ==
  /\ CallIdle
  /\ calls = <<>>
  /\ PageIdle
  /\ now = HistoryLimit
  /\ \E n \in {0, 1} :
       /\ analysisHistory = EarlierHistory(n)
       /\ lastAnalysis =
            IF n = 0 THEN Null
            ELSE lastOf(Analysis(0), OffersOf("exist.ru/Price/1"), "exist.ru/Price/1",
                        HistoryLimit - 1)
  /\ nonce = 0
  /\ currentProducts = <<>>
  /\ currentAnalysis = Null
  /\ dom = [screen |-> "closed"]
  /\ pending = NothingPending
  /\ sent = <<>>
  /\ currentTabId = 0
  /\ apiKey \in {"", "key"}
  /\ tab = ""

\* what a step of the popup leaves alone besides the variables it names
PopupRest == UNCHANGED <<callVars, calls, pageVars, now, tab>>

\* lines 555-559: btn-select is clicked
ClickSelect ==
  /\ dom.screen = "main"
  /\ ~dom.selectDisabled
  /\ currentTabId # 0
  /\ pending.select = "idle"
  /\ dom' = [dom EXCEPT !.selectDisabled = TRUE]
  /\ pending' = [pending EXCEPT !.select = "awaiting"]
  /\ UNCHANGED <<analysisHistory, lastAnalysis, nonce, currentProducts, currentAnalysis,
                 sent, currentTabId, apiKey>>
  /\ PopupRest

\* lines 562-614: the answer r to GET_PRODUCTS is there
SelectSettles(r) ==
  /\ pending.select = "awaiting"
  /\ pending' = [pending EXCEPT !.select = "idle"]
  /\ IF r.kind # "products"
     THEN /\ dom' = [dom EXCEPT !.selectDisabled = FALSE]
          /\ UNCHANGED currentProducts
     ELSE /\ currentProducts' = r.products
          /\ dom' =
               IF Len(r.products) = 0 \/ Len(SelectSeq(r.products, LAMBDA p : p.price > 0)) = 0
               THEN [dom EXCEPT !.selectDisabled = FALSE]
               ELSE [dom EXCEPT !.analyzeDisabled = FALSE]
  /\ UNCHANGED <<analysisHistory, lastAnalysis, nonce, currentAnalysis, sent,
                 currentTabId, apiKey>>
  /\ PopupRest

\* line 618: btn-analyze is clicked
ClickAnalyze ==
  /\ dom.screen = "main"
  /\ ~dom.analyzeDisabled
  /\ pending.analyze.pc = "idle"
  /\ Len(sent) < MaxMessages
  /\ pending' = [pending EXCEPT !.analyze = [pc |-> "key"]]
  /\ UNCHANGED <<analysisHistory, lastAnalysis, nonce, currentProducts, currentAnalysis,
                 dom, sent, currentTabId, apiKey>>
  /\ PopupRest

\* lines 619-638: the key is there
AnalyzeKey ==
  /\ pending.analyze.pc = "key"
  /\ IF apiKey = ""
     THEN /\ dom' = [dom EXCEPT !.screen = "settings"]
          /\ pending' = [pending EXCEPT !.analyze = [pc |-> "idle"]]
          /\ UNCHANGED sent
     ELSE IF Len(currentProducts) = 0
     THEN /\ pending' = [pending EXCEPT !.analyze = [pc |-> "idle"]]
          /\ UNCHANGED <<dom, sent>>
     ELSE /\ dom' = [dom EXCEPT !.screen = "loading"]
          /\ sent' = Append(sent, [type |-> "ANALYZE_PRODUCTS",
                                   products |-> currentProducts, apiKey |-> apiKey])
          /\ pending' = [pending EXCEPT !.analyze = [pc |-> "sent", request |-> Len(sent) + 1]]
  /\ UNCHANGED <<analysisHistory, lastAnalysis, nonce, currentProducts, currentAnalysis,
                 currentTabId, apiKey>>
  /\ PopupRest

\* lines 640-650, 655-658: the worker has answered, with success or without
AnalyzeSettles(success) ==
  /\ pending.analyze.pc = "sent"
  /\ IF success
     THEN /\ currentAnalysis' = Analysis(pending.analyze.request)
          /\ pending' = [pending EXCEPT
                           !.analyze = [pc |-> "tab",
                                        analysis |-> Analysis(pending.analyze.request)]]
          /\ UNCHANGED dom
     ELSE /\ dom' = [dom EXCEPT !.screen = "error"]
          /\ pending' = [pending EXCEPT !.analyze = [pc |-> "idle"]]
          /\ UNCHANGED currentAnalysis
  /\ UNCHANGED <<analysisHistory, lastAnalysis, nonce, currentProducts, sent,
                 currentTabId, apiKey>>
  /\ PopupRest

\* line 651: the tab is there, and saveAnalysis is called with currentProducts
AnalyzeTab ==
  /\ pending.analyze.pc = "tab"
  /\ pending' = [pending EXCEPT
                   !.analyze = [pc |-> "save", analysis |-> pending.analyze.analysis,
                                products |-> currentProducts, url |-> tab]]
  /\ UNCHANGED <<analysisHistory, lastAnalysis, nonce, currentProducts, currentAnalysis,
                 dom, sent, currentTabId, apiKey>>
  /\ PopupRest

\* lines 46-70: the stored history is there, the entry is put in front
AnalyzeSave ==
  /\ pending.analyze.pc = "save"
  /\ LET f == pending.analyze
     IN  /\ analysisHistory' =
              trimmedHistory(analysisHistory,
                             newItem(f.analysis, f.products, f.url, now, nonce))
         /\ lastAnalysis' = lastOf(f.analysis, f.products, f.url, now)
         /\ pending' = [pending EXCEPT !.analyze = [pc |-> "saved", analysis |-> f.analysis]]
  /\ nonce' = nonce + 1
  /\ UNCHANGED <<currentProducts, currentAnalysis, dom, sent, currentTabId, apiKey>>
  /\ PopupRest

\* lines 653-654: the save is done
AnalyzeDone ==
  /\ pending.analyze.pc = "saved"
  /\ dom' = [dom EXCEPT !.screen = "results"]
  /\ pending' = [pending EXCEPT !.analyze = [pc |-> "idle"]]
  /\ UNCHANGED <<analysisHistory, lastAnalysis, nonce, currentProducts, currentAnalysis,
                 sent, currentTabId, apiKey>>
  /\ PopupRest

\* line 372: btn-history is clicked
ClickHistory ==
  /\ dom.screen = "main"
  /\ pending.history = "idle"
  /\ pending' = [pending EXCEPT !.history = "loading"]
  /\ UNCHANGED <<analysisHistory, lastAnalysis, nonce, currentProducts, currentAnalysis,
                 dom, sent, currentTabId, apiKey>>
  /\ PopupRest

\* lines 373-436: the stored history is there and is drawn
HistoryLoaded ==
  /\ pending.history = "loading"
  /\ pending' = [pending EXCEPT !.history = "idle"]
  /\ dom' = [dom EXCEPT !.screen = "history", !.historyItems = analysisHistory]
  /\ UNCHANGED <<analysisHistory, lastAnalysis, nonce, currentProducts, currentAnalysis,
                 sent, currentTabId, apiKey>>
  /\ PopupRest

\* lines 411-420: the k-th entry drawn is clicked
ClickHistoryItem(k) ==
  /\ dom.screen = "history"
  /\ k \in DOMAIN dom.historyItems
  /\ LET id == dom.historyItems[k].id
         first == CHOOSE i \in DOMAIN dom.historyItems :
                    /\ dom.historyItems[i].id = id
                    /\ \A j \in 1..(i - 1) : dom.historyItems[j].id # id
         item == dom.historyItems[first]
     IN  /\ currentAnalysis' = item.result
         /\ currentProducts' = item.products
  /\ dom' = [dom EXCEPT !.screen = "results"]
  /\ UNCHANGED <<analysisHistory, lastAnalysis, nonce, pending, sent, currentTabId, apiKey>>
  /\ PopupRest

\* lines 687-690, 692-695, 704-707, 711-714: btn-back-settings,
\* btn-back-history, btn-back-results, btn-retry
Back(screen) ==
  /\ dom.screen = screen
  /\ dom' = [dom EXCEPT !.screen = "main"]
  /\ pending' = [pending EXCEPT !.check = "awaiting"]
  /\ UNCHANGED <<analysisHistory, lastAnalysis, nonce, currentProducts, currentAnalysis,
                 sent, currentTabId, apiKey>>
  /\ PopupRest

\* line 669: btn-settings is clicked
ClickSettings ==
  /\ dom.screen = "main"
  /\ pending.settings = "idle"
  /\ pending' = [pending EXCEPT !.settings = "loading"]
  /\ UNCHANGED <<analysisHistory, lastAnalysis, nonce, currentProducts, currentAnalysis,
                 dom, sent, currentTabId, apiKey>>
  /\ PopupRest

\* lines 670-672: the key is there
SettingsLoaded ==
  /\ pending.settings = "loading"
  /\ pending' = [pending EXCEPT !.settings = "idle"]
  /\ dom' = [dom EXCEPT !.screen = "settings"]
  /\ UNCHANGED <<analysisHistory, lastAnalysis, nonce, currentProducts, currentAnalysis,
                 sent, currentTabId, apiKey>>
  /\ PopupRest

\* lines 675-681: btn-save-key is clicked with a key typed
SaveKey ==
  /\ dom.screen = "settings"
  /\ pending.settings = "idle"
  /\ apiKey' = "key"
  /\ pending' = [pending EXCEPT !.settings = "saving"]
  /\ UNCHANGED <<analysisHistory, lastAnalysis, nonce, currentProducts, currentAnalysis,
                 dom, sent, currentTabId>>
  /\ PopupRest

\* lines 682-684: the key is saved
KeySaved ==
  /\ pending.settings = "saving"
  /\ pending' = [pending EXCEPT !.settings = "idle", !.check = "awaiting"]
  /\ dom' = [dom EXCEPT !.screen = "main"]
  /\ UNCHANGED <<analysisHistory, lastAnalysis, nonce, currentProducts, currentAnalysis,
                 sent, currentTabId, apiKey>>
  /\ PopupRest

NextPopup ==
  \/ \E url \in TabUrls : OpenPopup(url)
  \/ CheckSettles
  \/ ClickSelect
  \/ \E r \in SelectResponses : SelectSettles(r)
  \/ ClickAnalyze
  \/ AnalyzeKey
  \/ \E success \in BOOLEAN : AnalyzeSettles(success)
  \/ AnalyzeTab
  \/ AnalyzeSave
  \/ AnalyzeDone
  \/ ClickHistory
  \/ HistoryLoaded
  \/ \E k \in 1..MaxMessages + 1 : ClickHistoryItem(k)
  \/ \E screen \in {"settings", "history", "results", "error"} : Back(screen)
  \/ ClickSettings
  \/ SettingsLoaded
  \/ SaveKey
  \/ KeySaved

SpecPopup == InitPopup /\ [][NextPopup]_vars

(***************************************************************************)
(* The content script answering one GET_PRODUCTS message: waitForProducts, *)
(* its observer and its timer, on a page that stays open.  A task of the   *)
(* page is one step: the callback of the observer runs at the end of the   *)
(* task that changed the child lists, and the reaction to the promise at   *)
(* the end of the task that resolved it.                                   *)
(***************************************************************************)
\* timeoutMs = 5000
timeoutMs == 5000
\* the clock goes by half of timeoutMs
TickMs == timeoutMs \div 2
\* ticks of the clock before a message and after the deadline of its wait
MaxWaitTicks == 3

\* what parseProducts() finds in a page
WaitLists == {<<>>} \cup {OffersOf(url) : url \in Urls}

\* lines 440-445: the answer, of which the offers are followed
ProductsResponse(list) == [products |-> list]

\* the condition is only that offers are found
observerResolves_foundOnly(list, t, deadline) == Len(list) > 0
\* line 383: products.length > 0 || Date.now() > deadline
observerResolves(list, t, deadline) == Len(list) > 0 \/ t > deadline

\* resolve(value) of the promise of waitForProducts: the first call settles it
resolve(w, value) ==
  IF w.state = "resolved" THEN w ELSE [w EXCEPT !.state = "resolved", !.value = value]
\* lines 439-446: the reaction to the promise, once, when it is resolved
reacted(list, w, after) ==
  IF w.state # "resolved" /\ after.state = "resolved"
  THEN Append(list, ProductsResponse(after.value)) ELSE list

InitWait ==
  /\ CallIdle
  /\ calls = <<>>
  /\ PopupIdle
  /\ now = 0
  /\ pageOffers \in WaitLists
  /\ waiter = [state |-> "none"]
  /\ answers = <<>>

WaitRest == UNCHANGED <<callVars, calls, popupVars>>

\* lines 437-449, 370-390: the message GET_PRODUCTS is there
GetProducts ==
  /\ waiter.state = "none"
  /\ LET immediate == pageOffers
         w == [state |-> "pending", value |-> <<>>, deadline |-> now + timeoutMs,
               observing |-> FALSE, timer |-> "none"]
     IN  /\ waiter' =
              IF Len(immediate) > 0 THEN resolve(w, immediate)
              ELSE [w EXCEPT !.observing = TRUE, !.timer = "armed"]
         /\ answers' = reacted(answers, w, waiter')
  /\ UNCHANGED <<pageOffers, now>>
  /\ WaitRest

\* lines 381-387: nodes are added or removed under document.body and the
\* page then holds list; the observer, if it is connected, is called
Mutate(list) ==
  /\ list # pageOffers
  /\ pageOffers' = list
  /\ IF waiter.state # "none" /\ waiter.observing
     THEN LET found == list
          IN  /\ waiter' =
                   IF observerResolves(found, now, waiter.deadline)
                   THEN resolve([waiter EXCEPT !.observing = FALSE], found)
                   ELSE waiter
              /\ answers' = reacted(answers, waiter, waiter')
     ELSE UNCHANGED <<waiter, answers>>
  /\ UNCHANGED now
  /\ WaitRest

\* line 389: an attribute or the data of a text node changes, of which the
\* observer is not told, and the page then holds list
ChangeUnobserved(list) ==
  /\ list # pageOffers
  /\ pageOffers' = list
  /\ UNCHANGED <<waiter, answers, now>>
  /\ WaitRest

\* lines 392-395: the timer fires, at the deadline or later
TimerFires ==
  /\ waiter.state # "none"
  /\ waiter.timer = "armed"
  /\ now >= waiter.deadline
  /\ waiter' = resolve([waiter EXCEPT !.observing = FALSE, !.timer = "fired"], pageOffers)
  /\ answers' = reacted(answers, waiter, waiter')
  /\ UNCHANGED <<pageOffers, now>>
  /\ WaitRest

\* time passes: before the message, and from then until past the deadline
WaitTick ==
  /\ \/ waiter.state = "none" /\ now < MaxWaitTicks * TickMs
     \/ waiter.state # "none" /\ now < waiter.deadline + MaxWaitTicks * TickMs
  /\ now' = now + TickMs
  /\ UNCHANGED <<pageOffers, waiter, answers>>
  /\ WaitRest

NextWait ==
  \/ GetProducts
  \/ \E list \in WaitLists : Mutate(list)
  \/ \E list \in WaitLists : ChangeUnobserved(list)
  \/ TimerFires
  \/ WaitTick

SpecWait == InitWait /\ [][NextWait]_vars

\* the message comes, the clock goes on and the timer that is due fires
SpecWaitFair ==
  /\ SpecWait
  /\ WF_vars(GetProducts)
  /\ WF_vars(WaitTick)
  /\ WF_vars(TimerFires)

(***************************************************************************)
(* The recovery of the reply.                                              *)
(***************************************************************************)
Recovered == pc = "done"

\* the member of key k of an object, JUndefined when the object has none
Get(v, k) ==
  IF \E i \in 1..Len(v.members) : v.members[i].k = k
  THEN v.members[CHOOSE i \in 1..Len(v.members) : v.members[i].k = k].v
  ELSE JUndefined

\* an object that has a results sequence, a summary text and a bestChoice text
IsAnalysisResponse(v) ==
  /\ v.t = "obj"
  /\ Get(v, Key.results).t = "arr"
  /\ Get(v, Key.summary).t = "str"
  /\ Get(v, Key.bestChoice).t = "str"

\* C9: every outcome of the recovery is either an explicit error or an object
\* that has a results sequence, a summary text and a bestChoice text; no
\* partially populated object and no value that is no object is returned.
C9_CompleteResponseOrError ==
  Recovered =>
    \/ outcome.kind = "error"
    \/ outcome.kind = "ok" /\ IsAnalysisResponse(outcome.value)

\* a well-formed response serialised whole and handed over as a string
\* inside one code fence
FencedRoundTrip ==
  /\ answer.shape = "string"
  /\ answer.cut < 0
  /\ answer.wrap \in FencedWraps
  /\ IsAnalysisResponse(answer.value)

\* C10: a well-formed response, whatever its texts hold, that is serialised
\* and wrapped in a code fence is recovered as a structure equal to the
\* original.
C10_FencedRoundTrip ==
  (Recovered /\ FencedRoundTrip) => outcome = Returned(answer.value)

\* the text fields of the response of the answer
AnswerTexts ==
  {Get(answer.value, Key.summary).s, Get(answer.value, Key.bestChoice).s}
    \cup {Get(Get(answer.value, Key.results).items[i], Key.name).s :
            i \in 1..Len(Get(answer.value, Key.results).items)}

\* the round trip of the responses no text of which holds a fence
FenceFreeRoundTrip ==
  (Recovered /\ FencedRoundTrip /\ AnswerTexts \cap FenceTexts = {})
    => outcome = Returned(answer.value)

\* the text of a content that is a string, and what JSON.parse makes of it
ContentText == IF content.t = "str" THEN content.s ELSE <<>>
DirectParse == JSONparse(ContentText)
HasFence(s) == \E i \in 1..Len(s) : fenceAt(s, i, FALSE)

\* a content that is a text which parses as it stands and holds no fence
CleanText ==
  /\ content.t = "str"
  /\ DirectParse.ok
  /\ ~HasFence(ContentText)

\* C11: for a text that parses as valid JSON as it stands and holds no code
\* fence, the recovery returns exactly the structure the direct parse of the
\* text yields.
C11_CleanTextAsParsed ==
  (Recovered /\ CleanText) => outcome = Returned(DirectParse.v)

\* C11 amended: the same for the texts whose value is a JSON object.
C11_CleanObjectAsParsed ==
  (Recovered /\ CleanText /\ DirectParse.v.t = "obj")
    => outcome = Returned(DirectParse.v)

\* a clean text of a response with a result inside, padded with white space,
\* has been recovered
C11_Witness ==
  /\ Recovered
  /\ CleanText
  /\ answer.shape = "padded"
  /\ IsAnalysisResponse(DirectParse.v)
  /\ Len(Get(DirectParse.v, Key.results).items) > 0
  /\ outcome.kind = "ok"

\* the reply is a response serialised and cut mid-stream
CutReply == answer.shape = "string" /\ answer.cut >= 0

\* the closers that may be missing: none, a bracket, a brace, or both
Closers == {<<>>, <<93>>, <<125>>, <<93, 125>>, <<125, 93>>, <<125, 125>>, <<93, 93>>}

\* the text without fences and leading prose, up to its last closing brace
UpToLastBrace ==
  LET s  == fromFirstBrace(normalizeContent(content))
      at == {i \in 1..Len(s) : s[i] = 125}
  IN  IF at = {} THEN <<>> ELSE SubSeq(s, 1, SetMax(at))

\* C12: for a response cut mid-stream the recovery either returns the object
\* formed by the text up to the last closing brace before the cut with the
\* missing closers appended, or fails with the parse error; nothing else is
\* returned or thrown.
C12_CutReplyRepairedOrParseError ==
  (Recovered /\ CutReply) =>
    \/ outcome = Thrown(ParseErrorMessage)
    \/ /\ outcome.kind = "ok"
       /\ outcome.value.t = "obj"
       /\ \E c \in Closers :
            JSONparse(UpToLastBrace \o c) = [ok |-> TRUE, v |-> outcome.value]

\* a reply cut inside the bestChoice key, after the summary, was repaired to
\* the object that holds the results alone
C12_Witness ==
  /\ Recovered
  /\ CutReply
  /\ outcome.kind = "ok"
  /\ Len(Get(answer.value, Key.results).items) > 0
  /\ Get(outcome.value, Key.results) = Get(answer.value, Key.results)
  /\ Get(outcome.value, Key.summary) = JUndefined
  /\ LET body == JSONstringify(answer.value)
     IN  /\ answer.cut > 8
         /\ SubSeq(body, answer.cut - 6, answer.cut) = <<34, 98, 101, 115, 116, 67, 104>>

\* a cut reply ended in the parse error
C12_WitnessError == Recovered /\ CutReply /\ outcome = Thrown(ParseErrorMessage)

\* the text the truncation repair is given and the text it gives back
RepairInput == fromFirstBrace(normalizeContent(content))
RepairOutput == repairJson(normalizeContent(content))
Repaired == pc # "start" /\ pc # "fetched"
EndsWithBrace(s) == s # <<>> /\ s[Len(s)] = 125
Balanced(s) == countOf(s, 91) = countOf(s, 93) /\ countOf(s, 123) = countOf(s, 125)
\* the text up to its last closing brace
CutAtLastBrace(s) ==
  LET at == {i \in 1..Len(s) : s[i] = 125}
  IN  IF at = {} THEN <<>> ELSE SubSeq(s, 1, SetMax(at))
\* by how many the opening c outnumber the closing d
Lacks(s, c, d) == countOf(s, c) - countOf(s, d)

\* C13: whenever the text without fences and prefix does not end with a
\* closing brace, the repair gives the text up to the last closing brace
\* followed by closers only, with as many [ as ] and as many { as }.
C13_RepairBalances ==
  (Repaired /\ ~EndsWithBrace(RepairInput)) =>
    /\ \E c \in Closers : RepairOutput = CutAtLastBrace(RepairInput) \o c
    /\ Balanced(RepairOutput)

\* C13 amended: a text that has a closing brace beyond its first character
\* is cut at the last one and gets one ] if the [ outnumber the ] and one }
\* if the { outnumber the }, so the counts are equal exactly when the cut
\* text lacked at most one closer of a kind and had none in excess; a text
\* without such a brace is left as it is.
C13_RepairAppendsOneOfEach ==
  (Repaired /\ ~EndsWithBrace(RepairInput)) =>
    LET cut == CutAtLastBrace(RepairInput)
    IN  IF Len(cut) > 1
        THEN /\ RepairOutput = cut
                  \o (IF Lacks(cut, 91, 93) > 0 THEN <<93>> ELSE <<>>)
                  \o (IF Lacks(cut, 123, 125) > 0 THEN <<125>> ELSE <<>>)
             /\ Balanced(RepairOutput) <=>
                  (Lacks(cut, 91, 93) \in {0, 1} /\ Lacks(cut, 123, 125) \in {0, 1})
        ELSE RepairOutput = RepairInput

\* a cut text that lacked one bracket and one brace was repaired to balance
C13_Witness ==
  /\ Repaired
  /\ ~EndsWithBrace(RepairInput)
  /\ Lacks(CutAtLastBrace(RepairInput), 91, 93) = 1
  /\ Lacks(CutAtLastBrace(RepairInput), 123, 125) = 1
  /\ Balanced(RepairOutput)
  /\ Len(RepairOutput) = Len(CutAtLastBrace(RepairInput)) + 2

\* a well-formed object serialised whole after prose, fenced or not
ProsePrefixed ==
  /\ answer.shape = "string"
  /\ answer.cut < 0
  /\ answer.wrap \in {"prose", "braces"}
  /\ answer.value.t = "obj"

\* C14: when a well-formed JSON object is preceded by prose, whatever the
\* prose holds, the recovery drops the prose and returns the object.
C14_ProseDroppedObjectReturned ==
  (Recovered /\ ProsePrefixed) => outcome = Returned(answer.value)

\* the same for prose without a brace before an object whose texts hold no
\* fence
ProseExample ==
  (Recovered /\ ProsePrefixed /\ answer.wrap = "prose"
     /\ AnswerTexts \cap FenceTexts = {})
    => outcome = Returned(answer.value)

(***************************************************************************)
(* The normalization of the content.                                       *)
(***************************************************************************)
Normalized == pc \in {"catch", "done"}

\* the shapes normalizeContent accepts: a string, a sequence of chunks, an
\* object with a text
AcceptedShape == content.t \in {"str", "arr"} \/ HasTextString(content)

IsTrimmed(s) == s = <<>> \/ (s[1] \notin WhiteSpace /\ s[Len(s)] \notin WhiteSpace)

\* the text a chunk carries, empty when it carries none
Fragment(chunk) ==
  IF chunk.t = "str" THEN chunk.s
  ELSE IF HasTextString(chunk) THEN TextOf(chunk)
  ELSE <<>>

\* the texts of a sequence joined by line feeds
RECURSIVE JoinLines(_)
JoinLines(texts) ==
  IF texts = <<>> THEN <<>>
  ELSE IF Len(texts) = 1 THEN texts[1]
  ELSE texts[1] \o <<10>> \o JoinLines(Tail(texts))

\* the fragments of the chunks that carry text, in the order of the chunks
FragmentsOf(items) ==
  LET all == [i \in 1..Len(items) |-> Fragment(items[i])]
      some(s) == s # <<>>
  IN  SelectSeq(all, some)

\* C15: for a string, a sequence of chunks or an object with a text the
\* normalized content is a string without leading or trailing white space,
\* and for a sequence it is the fragments of the chunks in their order
\* joined by line feeds, chunks without text adding nothing.
C15_NormalizedIsTrimmed ==
  (Normalized /\ AcceptedShape) =>
    /\ IsTrimmed(raw)
    /\ content.t = "arr" => raw = trim(JoinLines(FragmentsOf(content.items)))

\* the same without the object with a text
StringsAndChunksTrimmed ==
  (Normalized /\ content.t \in {"str", "arr"}) =>
    /\ IsTrimmed(raw)
    /\ content.t = "arr" => raw = trim(JoinLines(FragmentsOf(content.items)))

\* a string: a finite sequence of UTF-16 code units
IsString(s) == DOMAIN s = 1..Len(s) /\ \A i \in 1..Len(s) : s[i] \in 0..65535

\* a content that is no string, no sequence of chunks and no object with a
\* text
Unrecognized == ~AcceptedShape

\* C16: the normalization never fails and returns a string for every
\* content, and every content that is no string, no sequence of chunks and
\* no object with a text gives the empty string.
C16_UnrecognizedGivesEmpty ==
  Normalized =>
    /\ IsString(raw)
    /\ Unrecognized => raw = <<>>

\* what the code gives instead: the empty string for null and undefined,
\* "42" for 42, "true" for true, "[object Object]" for an object without text
UnrecognizedCoerced ==
  (Normalized /\ Unrecognized) =>
    /\ IsString(raw)
    /\ content.t \in {"null", "undefined"} => raw = <<>>
    /\ content = JInt(42) => raw = <<52, 50>>
    /\ content = JBool(TRUE) => raw = <<116, 114, 117, 101>>
    /\ content.t = "obj" =>
         raw = <<91, 111, 98, 106, 101, 99, 116, 32, 79, 98, 106, 101, 99, 116, 93>>

(***************************************************************************)
(* The failures of a request.                                              *)
(***************************************************************************)
\* the recovery has run on a decoded body
RecoveryRan == resp.kind = "ok" /\ pc \in {"done", "replied"}
Replied == pc = "replied"

\* the parse of the repaired text fails, and so does the parse of the
\* repaired match of the fallback, if there is a match
BothParsesFail ==
  /\ ~JSONparse(repairJson(raw)).ok
  /\ LET jsonMatch == matchResults(raw)
     IN  jsonMatch.found => ~JSONparse(repairJson(jsonMatch.text)).ok

Contains(s, sub) == \E i \in 1..Len(s) : StartsWithAt(s, i, sub)
\* "cut JSON" and "try again" in the language of the message
TruncatedHint == <<1086, 1073, 1088, 1077, 1079, 1072, 1085, 1085, 1099, 1081, 32, 74, 83, 79, 78>>
RetryHint == <<1087, 1086, 1087, 1088, 1086, 1073, 1091, 1081, 1090, 1077, 32, 1089, 1085, 1086, 1074, 1072>>

\* C17: when the direct parse and the parse of the fallback both fail, the
\* recovery throws an error whose message speaks of a cut JSON and of trying
\* again, and the sender of ANALYZE_PRODUCTS gets {success: false, error}
\* with that message, never a success with data.
C17_BothFailParseErrorToCaller ==
  (RecoveryRan /\ BothParsesFail) =>
    /\ outcome.kind = "error"
    /\ Contains(outcome.message, TruncatedHint)
    /\ Contains(outcome.message, RetryHint)
    /\ Replied => replies = <<[success |-> FALSE, error |-> outcome.message]>>

\* a cut answer that no repair saves was answered with the failure
C17_Witness ==
  /\ Replied
  /\ RecoveryRan
  /\ BothParsesFail
  /\ answer.cut >= 0
  /\ Len(replies) = 1
  /\ ~replies[1].success

\* the transport answered without success and the status has been tested
StatusFailed == resp.kind = "status" /\ pc \notin {"truncated", "responded"}

\* the digits of the statuses of the model
StatusText(status) ==
  CASE status = 401 -> <<52, 48, 49>>
    [] status = 500 -> <<53, 48, 48>>

EndsWith(s, sub) ==
  Len(sub) <= Len(s) /\ SubSeq(s, Len(s) - Len(sub) + 1, Len(s)) = sub

BraceBeforeResults(s) ==
  {i \in 1..Len(s) :
     /\ s[i] = 123
     /\ \E q \in (i + 1)..Len(s) :
          /\ StartsWithAt(s, q, ResultsKey)
          /\ \E j \in (q + 9)..Len(s) : s[j] = 125}

\* the leftmost and longest substring of s from an opening brace through a
\* closing brace that holds "results"
LongestObjectWithResults(s) ==
  SubSeq(s, SetMin(BraceBeforeResults(s)), SetMax({j \in 1..Len(s) : s[j] = 125}))

\* what the fallback has to give on the normalized text s
FallbackOutcome(s) ==
  IF BraceBeforeResults(s) = {} THEN Thrown(ParseErrorMessage)
  ELSE LET parsed == JSONparse(repairJson(LongestObjectWithResults(s)))
       IN  IF parsed.ok THEN Returned(parsed.v) ELSE Thrown(ParseErrorMessage)

\* C19: the fallback runs only after the parse of the repaired text has
\* failed; it searches the normalized text, not the repaired one, for the
\* substring from an opening brace through a closing brace that holds
\* "results", repairs and parses it; its parse, if it succeeds, is the
\* result, and otherwise, or without a match, the parse error is thrown.
C19_FallbackOnlyAfterFailedParse ==
  /\ [](/\ pc = "catch" => ~JSONparse(repairJson(raw)).ok
        /\ Recovered =>
             IF JSONparse(repairJson(raw)).ok
             THEN outcome = Returned(JSONparse(repairJson(raw)).v)
             ELSE outcome = FallbackOutcome(raw))
  /\ [][/\ pc' = "catch" => pc = "fetched"
        /\ pc = "catch" =>
             /\ pc' = "done"
             /\ raw' = raw
             /\ outcome' = FallbackOutcome(raw)]_vars

\* the parse of the repaired text failed and the fallback gave the result
C19_Witness ==
  /\ Recovered
  /\ outcome.kind = "ok"
  /\ ~JSONparse(repairJson(raw)).ok
  /\ outcome = FallbackOutcome(raw)

(***************************************************************************)
(* The order of the results.                                               *)
(***************************************************************************)
\* ten times a number that has at most one digit after the point
Tenths(num) ==
  (IF num.neg THEN -1 ELSE 1)
    * (num.int * 10 + (IF num.frac = <<>> THEN 0 ELSE num.frac[1]))

\* the results are objects with a rank that is their position and a score
\* from 1 to 10, and no result has a higher score than one before it
RankedByScore(results) ==
  /\ \A i \in 1..Len(results) :
       /\ results[i].t = "obj"
       /\ Get(results[i], Key.rank) = JInt(i)
       /\ Get(results[i], Key.score).t = "num"
       /\ Tenths(Get(results[i], Key.score)) >= 10
       /\ Tenths(Get(results[i], Key.score)) <= 100
  /\ \A i, j \in 1..Len(results) :
       i < j => Tenths(Get(results[i], Key.score)) >= Tenths(Get(results[j], Key.score))

\* C20: in every response the recovery returns, the results are in the
\* order of descending score, the result at position i has rank i, and every
\* score lies between 1 and 10.
C20_ResultsRankedByScore ==
  (Recovered /\ outcome.kind = "ok" /\ IsAnalysisResponse(outcome.value))
    => RankedByScore(Get(outcome.value, Key.results).items)

(***************************************************************************)
(* The repair of a text that ends with a closing brace.                    *)
(***************************************************************************)
\* C30: when the text without fences and prefix already ends with a closing
\* brace, repairJson gives exactly that text, without any closer, balanced
\* or not; so a response cut right after the closing brace of an inner
\* object is not repaired and ends in the parse error.
C30_EndingInBraceLeftAlone ==
  /\ (Repaired /\ EndsWithBrace(RepairInput)) => RepairOutput = RepairInput
  /\ (Recovered /\ CutReply /\ EndsWithBrace(RepairInput))
       => outcome = Thrown(ParseErrorMessage)

\* a response cut right after the closing brace of a result, its brackets
\* and braces unbalanced, ended in the parse error
C30_Witness ==
  /\ Recovered
  /\ CutReply
  /\ EndsWithBrace(RepairInput)
  /\ Lacks(RepairInput, 91, 93) = 1
  /\ Lacks(RepairInput, 123, 125) = 1
  /\ RepairOutput = RepairInput
  /\ outcome = Thrown(ParseErrorMessage)

(***************************************************************************)
(* The payload of the request.                                             *)
(***************************************************************************)
\* text.split('\n')
RECURSIVE Lines(_)
Lines(text) ==
  LET at == indexOf(text, 10)
  IN  IF at = -1 THEN <<text>>
      ELSE <<SubSeq(text, 1, at)>> \o Lines(SubSeq(text, at + 2, Len(text)))
\* the lines between the heading and the empty line before the closing
\* sentence that say something
OfferLines(prompt) ==
  LET all == Lines(prompt)
  IN  SelectSeq(SubSeq(all, 2, Len(all) - 2), LAMBDA line : line # <<>>)
\* the number between "(" and " шт.)" in the heading
Announced(prompt) ==
  LET open == indexOf(prompt, 40) + 2
  IN  digitsValue(prompt, open, digitsEnd(prompt, open))
PriceLabel == <<1062, 1077, 1085, 1072, 58, 32>>
Rouble == <<32, 8381>>
\* the line says "Цена: ", a positive number and " ₽"
CarriesPositivePrice(line) ==
  \E i \in 1..Len(line) :
    /\ StartsWithAt(line, i, PriceLabel)
    /\ LET from == i + Len(PriceLabel)
           to   == digitsEnd(line, from)
       IN  /\ to > from
           /\ digitsValue(line, from, to) > 0
           /\ StartsWithAt(line, to, Rouble)
           /\ to + Len(Rouble) - 1 = Len(line) \/ StartsWithAt(line, to + Len(Rouble), <<44, 32>>)
Sent == Len(requests) > 0
TheRequest == requests[Len(requests)]

\* C29: every offer line of a request that is sent carries a positive
\* number as its price, the text "нет данных" (no data) is nowhere in the body
\* that is sent, and the heading announces as many offers as there are
\* offer lines.
C29_OfferLinesCarryPrice ==
  \A k \in 1..Len(requests) :
    LET lines == OfferLines(requests[k].userPrompt)
    IN  /\ \A i \in 1..Len(lines) : CarriesPositivePrice(lines[i])
        /\ ~Contains(requests[k].body, NoDataText)
        /\ Announced(requests[k].userPrompt) = Len(lines)
        /\ Len(lines) = Len(requests[k].offers)
\* a message of two offers, one of them without a price, has been sent as a
\* request of one line
UnpricedDropped ==
  /\ Sent
  /\ Len(products) = 2
  /\ \E i \in 1..2 : products[i].price = 0
  /\ Len(OfferLines(TheRequest.userPrompt)) = 1
  /\ Announced(TheRequest.userPrompt) = 1

(***************************************************************************)
(* Two invocations.                                                        *)
(***************************************************************************)
HasSent(f) == f.request # NoRequest
HasReplied(f) == f.pc = "replied"

AloneOutcome(r, c) ==
  CASE r.kind = "rejected" -> Thrown(NetworkErrorMessage)
    [] r.kind = "status" -> Thrown(TransportErrorMessage(r.status, r.body))
    [] r.kind = "undecodable" -> Thrown(DecodeErrorMessage)
    [] r.kind = "null" -> Thrown(NullDataMessage)
    [] OTHER ->
         LET normalized == normalizeContent(c)
             direct     == JSONparse(repairJson(normalized))
             jsonMatch  == matchResults(normalized)
             second     == IF jsonMatch.found THEN JSONparse(repairJson(jsonMatch.text))
                           ELSE [ok |-> FALSE, v |-> JNull]
         IN  IF direct.ok THEN Returned(direct.v)
             ELSE IF second.ok THEN Returned(second.v)
             ELSE Thrown(ParseErrorMessage)
AloneReply(r, c) ==
  LET o == AloneOutcome(r, c)
  IN  IF o.kind = "ok" THEN [success |-> TRUE, data |-> o.value]
      ELSE [success |-> FALSE, error |-> o.message]

\* C22: however the steps of two invocations interleave, the request of
\* each is built from its own offers alone and its one response is the
\* response it gets alone from its own transport reply.
C22_NoInterference ==
  \A i \in DOMAIN calls :
    /\ HasSent(calls[i]) => calls[i].request = Request(truncateProducts(calls[i].products))
    /\ HasReplied(calls[i])
         => calls[i].replies = <<AloneReply(calls[i].resp, calls[i].content)>>
\* both have replied, differently: one with the parse error, the other with
\* the response that its own content holds
C22_Witness ==
  /\ calls # <<>>
  /\ HasReplied(calls[1]) /\ HasReplied(calls[2])
  /\ calls[1].replies = <<[success |-> FALSE, error |-> ParseErrorMessage]>>
  /\ calls[2].replies[1].success
  /\ calls[1].products # calls[2].products

(***************************************************************************)
(* One message, one call, one response.                                    *)
(***************************************************************************)
\* {success: true, data} or {success: false, error}
IsResponseMessage(msg) ==
  \/ DOMAIN msg = {"success", "data"} /\ msg.success = TRUE
  \/ DOMAIN msg = {"success", "error"} /\ msg.success = FALSE /\ msg.error \in Seq(Int)

\* C23: the message leads to exactly one call of the transport and to
\* exactly one response, {success: true, data} or {success: false, error}:
\* never more than one of either, no response without the call, and the
\* response does come, whatever the transport does.
C23_OneCallOneResponse ==
  /\ [](/\ Len(requests) <= 1
        /\ Len(replies) <= 1
        /\ Len(replies) = 1 => (Len(requests) = 1 /\ IsResponseMessage(replies[1])))
  /\ <>[](Len(requests) = 1 /\ Len(replies) = 1)
\* the transport has rejected the one call and the one response says so
C23_Witness ==
  /\ resp.kind = "rejected"
  /\ Len(requests) = 1
  /\ replies = <<[success |-> FALSE, error |-> NetworkErrorMessage]>>

(***************************************************************************)
(* The stored history.                                                     *)
(***************************************************************************)
NewestFirst(history) ==
  \A i, j \in DOMAIN history : i < j => history[i].timestamp >= history[j].timestamp
\* after holds the entries of history but those with the id, each as many
\* places nearer the front as entries before it are gone
OthersKept(history, after, id) ==
  LET gone == {k \in DOMAIN history : history[k].id = id}
  IN  /\ Len(after) = Len(history) - Cardinality(gone)
      /\ \A k \in DOMAIN history \ gone :
           after[k - Cardinality({j \in gone : j < k})] = history[k]

\* C24: the stored history never holds more than 50 entries and is ordered
\* newest first; a save puts the new entry in front of the earlier ones and
\* keeps of them the newest 49 at most, in their order; a delete takes away
\* the entries with the id it is given and nothing else, and keeps the order.
C24_HistoryBoundedNewestFirst ==
  /\ [](Len(analysisHistory) <= 50 /\ NewestFirst(analysisHistory))
  /\ [][/\ \A url \in Urls :
             SaveAnalysis(Analysis(nonce + 1), url)
               => /\ analysisHistory'[1].result = Analysis(nonce + 1)
                  /\ analysisHistory'[1].timestamp = now
                  /\ analysisHistory'[1].products = OffersOf(url)
                  /\ Len(analysisHistory') =
                       (IF Len(analysisHistory) < 50 THEN Len(analysisHistory) + 1 ELSE 50)
                  /\ \A k \in 2..Len(analysisHistory') :
                       analysisHistory'[k] = analysisHistory[k - 1]
        /\ \A id \in DeleteIds :
             DeleteHistoryItem(id) => OthersKept(analysisHistory, analysisHistory', id)
       ]_vars
\* a save on a full history has put its entry in front and dropped the
\* oldest one, and the second newest entry has then been deleted
C24_Witness ==
  /\ nonce = 1
  /\ Len(analysisHistory) = 49
  /\ analysisHistory[1].result = Analysis(1)
  /\ analysisHistory[2] = EarlierHistory(50)[2]
  /\ analysisHistory[49] = EarlierHistory(50)[49]

InHistory(result) ==
  \E k \in DOMAIN analysisHistory : analysisHistory[k].result = result

\* C27: whenever the stored lastAnalysis is not null, its result is the
\* result of an entry of the stored history; and a result the popup restores
\* when it opens is one of the history.
C27_LastAnalysisInHistory ==
  /\ lastAnalysis # Null => InHistory(lastAnalysis.result)
  /\ (dom.screen = "results" /\ pending = NothingPending /\ currentAnalysis # Null
      /\ lastAnalysis # Null /\ currentAnalysis = lastAnalysis.result)
       => InHistory(currentAnalysis)
\* the analysis that was saved and then deleted is shown when the popup opens
C27_DeletedRestored ==
  /\ dom.screen = "results"
  /\ currentAnalysis = Analysis(1)
  /\ ~InHistory(Analysis(1))

(***************************************************************************)
(* The popup between a selection and the save of its analysis.             *)
(***************************************************************************)
\* the offers of the ANALYZE_PRODUCTS message that gave the analysis result
SentFor(result) == sent[result.request].products

\* C26: the offers stored with an analysis, in the history and in
\* lastAnalysis, are the offers of the ANALYZE_PRODUCTS message that gave
\* that analysis.
C26_StoredOffersAreSentOffers ==
  /\ \A k \in DOMAIN analysisHistory :
       analysisHistory[k].result.request \in DOMAIN sent
         => analysisHistory[k].products = SentFor(analysisHistory[k].result)
  /\ (lastAnalysis # Null /\ lastAnalysis.result.request \in DOMAIN sent)
       => lastAnalysis.products = SentFor(lastAnalysis.result)

HasPricedOffer(list) == \E i \in DOMAIN list : list[i].price > 0

\* C28: every ANALYZE_PRODUCTS message sent carries an offer with a
\* positive price.
C28_SentWithPricedOffer ==
  \A k \in DOMAIN sent : HasPricedOffer(sent[k].products)

(***************************************************************************)
(* The answer to GET_PRODUCTS.                                             *)
(***************************************************************************)
Waiting == waiter.state = "pending"
Answered == Len(answers) = 1

\* C25: a GET_PRODUCTS message is answered in the end, and only once; with
\* offers in the page the answer is given at once with them; otherwise it is
\* given at the first change the observer is told of after which offers are
\* found or the deadline is past, with what is found then, and not at an
\* earlier one; when the timer fires the answer is there; and the answer
\* given is never changed.
C25_AlwaysAnsweredOnce ==
  /\ <>Answered
  /\ [](Len(answers) <= 1)
  /\ [][/\ (GetProducts /\ pageOffers # <<>>) => answers' = <<ProductsResponse(pageOffers)>>
        /\ \A list \in WaitLists :
             (Waiting /\ Mutate(list))
               => IF list # <<>> \/ now > waiter.deadline
                  THEN answers' = <<ProductsResponse(list)>>
                  ELSE answers' = <<>> /\ waiter'.state = "pending"
        /\ TimerFires => Len(answers') = 1
        /\ answers # <<>> => answers' = answers
       ]_vars
\* the answer was given by the observer after the deadline with no offers
\* found, and the timer has fired later on a page that holds offers
C25_Witness ==
  /\ Answered
  /\ answers[1].products = <<>>
  /\ waiter.timer = "fired"
  /\ pageOffers # <<>>
====
